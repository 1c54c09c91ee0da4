-------------------------- MODULE ProviderRegistry --------------------------
(***************************************************************************)
(* What the gateway makes of the SSO_* and SAML_* variables when it starts: *)
(* the registry of OIDC providers, the registry of SAML providers, or no    *)
(* gateway at all (every misconfiguration throws before the server listens).*)
(*                                                                          *)
(* An environment is [insecure, declared]: the dev escape hatch and the     *)
(* declarations, in the order Object.keys meets them. A declaration keeps   *)
(* what the validation tells apart; secrets, labels, scopes and warnings    *)
(* are left out.                                                            *)
(***************************************************************************)
EXTENDS Integers, Sequences, FiniteSets

CONSTANT Lower  \* the lower-case form of every provider name

Protocols == {"oidc", "saml"}

\* A host is [kind |-> "ip", a |-> .., b |-> ..] or [kind |-> "name", name |-> ..].
Ip(x, y) == [kind |-> "ip", a |-> x, b |-> y, name |-> ""]
Named(n) == [kind |-> "name", a |-> 0, b |-> 0, name |-> n]

\* "This host" and link-local, the cloud metadata address among them.
IsAlwaysBlockedHost(h) ==
  h.kind = "ip" /\ (h.a = 0 \/ (h.a = 169 /\ h.b = 254))

\* Loopback and RFC 1918.
IsPrivateHost(h) ==
  \/ h.kind = "name" /\ h.name \in {"localhost", "::1"}
  \/ h.kind = "ip" /\ \/ h.a \in {127, 10}
                      \/ h.a = 192 /\ h.b = 168
                      \/ h.a = 172 /\ h.b \in 16..31

\* mutant of SafeUrl: the escape hatch opens the metadata address too.
SafeUrlHatchOpensAll(url, insecure) ==
  \/ insecure /\ url.scheme \in {"http", "https"}
  \/ url.scheme = "https" /\ ~IsAlwaysBlockedHost(url.host) /\ ~IsPrivateHost(url.host)

\* assertSafeFederationUrl returns: a URL the gateway may talk or redirect to.
SafeUrl(url, insecure) ==
  /\ url.scheme # "malformed"
  /\ ~IsAlwaysBlockedHost(url.host)
  /\ \/ url.scheme = "https" /\ (insecure \/ ~IsPrivateHost(url.host))
     \/ url.scheme = "http" /\ insecure

IdOf(d) == Lower[d.name]

\* The positions of the declarations of one protocol.
Declared(e, protocol) ==
  {i \in DOMAIN e.declared : e.declared[i].protocol = protocol}

\* Every entry of a permission map names a claim and known permissions.
ParsesPermissionMap(map) == \A entry \in map : entry \notin {"malformed", "unknown"}

\* One SSO_<NAME>_ISSUER declaration survives buildRegistryFromEnv.
ValidOidc(d, insecure) ==
  /\ ~d.incomplete
  /\ SafeUrl(d.url, insecure)
  /\ ParsesPermissionMap(d.map)

\* parseIdpCerts: at least one certificate, and none that is garbled, expired
\* or signed with an RSA key shorter than 2048 bits.
ParsesIdpCerts(certs) ==
  certs # {} /\ certs \cap {"garbled", "expired", "weak"} = {}

\* mutant of Collides: the declared names are compared, not the ids.
CollidesByName(d, e) ==
  \E i \in Declared(e, "oidc") : e.declared[i].name = d.name

\* An OIDC provider of the same environment has the id already.
Collides(d, e) ==
  \E i \in Declared(e, "oidc") : IdOf(e.declared[i]) = IdOf(d)

\* One SAML_<NAME>_ENTRY_POINT declaration survives buildSamlRegistryFromEnv.
ValidSaml(d, e) ==
  /\ ~Collides(d, e)
  /\ ~d.incomplete
  /\ SafeUrl(d.url, e.insecure)
  /\ ParsesIdpCerts(d.certs)
  /\ d.callback # "malformed"
  /\ d.logout # <<>> => SafeUrl(d.logout[1], e.insecure)
  /\ d.algorithm \in {"sha256", "sha512"}
  /\ d.domains # {}
  /\ ParsesPermissionMap(d.map)

\* validateSsoConfig and validateSamlConfig return: the server listens.
Boots(e) ==
  \A i \in DOMAIN e.declared :
     LET d == e.declared[i]
     IN  IF d.protocol = "oidc" THEN ValidOidc(d, e.insecure) ELSE ValidSaml(d, e)

\* The registry of one protocol: for an id declared twice (the names differ in
\* case) the later declaration replaces the earlier one without a word.
Registry(e, protocol) ==
  LET ids == {IdOf(e.declared[i]) : i \in Declared(e, protocol)}
      last(id) == CHOOSE i \in Declared(e, protocol) :
                    /\ IdOf(e.declared[i]) = id
                    /\ \A j \in Declared(e, protocol) :
                         IdOf(e.declared[j]) = id => j <= i
  IN  [id \in ids |-> e.declared[last(id)]]
=============================================================================
