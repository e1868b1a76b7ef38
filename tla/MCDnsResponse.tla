----------------------------- MODULE MCDnsResponse -----------------------------
(* Instances of DnsResponse for TLC.  Bytes are 0 to 3: end of a name, a     *)
(* label of one byte, and two pointers, which reach the first eight bytes.   *)
EXTENDS DnsResponse

\* Four types at a time: the ones all parsers know, or the others.
MCTypeOf(p, b) == IF p.srv THEN <<"SRV", "NS", "OPT", "AAAA">>[b + 1]
                  ELSE <<"A", "NS", "MX", "TXT">>[b + 1]

\* "a." and "a.a"
MCDomains == {<<1, Dot>>, <<1, Dot, 1>>}
MCHeaders == {<<1, 1, 0, 0>>, <<0, 1, 0, 1>>, <<1, 0, 2, 0>>}
===============================================================================
