CONSTANTS
  Calls <- MCCalls
  Texts <- MCTexts
SPECIFICATION MCSpec
INVARIANTS
  TypeOK
  AddressExact
  PrefixExact
  AddressValue
  StrictExact
  EveryIterationConsumes
  IpAnswers
  IpPrefixAnswers
  HostnameAnswers
  HostAndPortAnswers
  EmailAnswers
  UriAnswers
CHECK_DEADLOCK FALSE
