SPECIFICATION MCSpec
CONSTANTS
  a = a
  b = b
  u = u
  Missing = Missing
  Names <- MCNames
  Used <- MCUsed
  Files = {f}
  Contents <- MCContents
  MaxLen = 2
  MaxEdits = 1
  MaxPackage = 3
  Sections <- MCSections
  Packages <- MCPackages
  Manifests <- MCManifests
  Forms = {"multi", "inline"}
INVARIANTS
  FixedIsGone
  FreshIsNotSkipped
  RemovalsSucceed
PROPERTIES
  ReportsWhatIsOnDisk
