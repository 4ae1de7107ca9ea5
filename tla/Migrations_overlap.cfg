\* Two processes open an old or a new database at any time.
SPECIFICATION MigrationsSpec
CONSTANTS
  Openers = {p1, p2}
INVARIANT
  SafeToRepeat
