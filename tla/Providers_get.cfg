SPECIFICATION Spec
CONSTANTS
  Provider <- MCProvider
  NoProvider = NoProvider
  NoOne = NoOne
  Empty = ""
  Missing = Missing
  Absent = Absent
  User = {u1, u2}
  EnvValues <- MCEnvValues
  Home <- MCHome
  Section <- MCSection
  Key <- MCKey
  Text <- MCText
  Static <- MCStatic
  MaxFetches = 2
  MaxChanges = 1
INVARIANTS TypeOK ParserRight OneProfile
PROPERTIES FetchRight ImplementsCredentials
