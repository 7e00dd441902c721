SPECIFICATION Spec
CONSTANTS
  Shipments = {s1}
  Shippers = {alice}
  Drivers = {dan, eve}
  Admins = {root}
  Requests = {r1, r2}
  NoUser = NoUser
  MaxFailures = 1
SYMMETRY Symmetry
INVARIANTS
  HistoryIsALifecycle
  EntriesAreAuthorised
  RecordsTellTheHistory
  AnnouncedUnlessFailed
PROPERTIES
  NothingRewritten
  ImplementsContract
