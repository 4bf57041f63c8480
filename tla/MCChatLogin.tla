----------------------------- MODULE MCChatLogin ----------------------------
EXTENDS ChatLogin, TLC

Symmetry == Permutations(Logins)

\* Plain names: a tailnet name first, and localhost at the production PC.
Pc    == [scheme |-> "http", name |-> "pc", port |-> "7878"]
Local == [scheme |-> "http", name |-> "localhost", port |-> "7878"]
Plain == <<Pc, Local>>

\* The server's number, which public_url does not name.
Number == {[scheme |-> "http", name |-> "10.0.0.9", port |-> "7878"]}

\* A TLS name first, as docs/development.md has it.
Tls == <<[scheme |-> "https", name |-> "pc.ts.net", port |-> ""], Pc>>

\* A first URL that names its scheme's own port.
Named == <<[scheme |-> "http", name |-> "pc", port |-> "80"], Local>>

AnyList == {Plain, Tls, Named}
OnlyTls == {Tls}
=============================================================================
