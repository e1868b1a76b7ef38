SPECIFICATION Spec
CONSTANTS
  None = None
  h1 = h1
  h2 = h2
  h3 = h3
  p1 = p1
  d1 = d1
  Modules = {"icmp_echo", "icmp6_echo", "icmp6_echo_gw", "icmp6_echo_tmxd", "tcp_syn", "tcp6_syn", "udp", "udp6", "dns", "dnsx", "dnsa", "dns6ae", "dnsr", "tcp_scan"}
  Hosts = {h1, h2, h3}
  Ports = {p1}
  Names = {d1}
  SeqMod = 2
  WordMod = 8
  Word <- MCWord
  Bits = {1, 2, 3, 4}
  Hash <- MCHash
  Filters <- MCFilters
  MaxPackets = 3
INVARIANTS Accounting BloomExact AnswersOnce OutputExact
CHECK_DEADLOCK FALSE
