-------------------------- MODULE MCFederatedSignIn --------------------------
\* A small instance: two providers whose issuers share a key, both SAML in one
\* environment, OIDC and SAML in another; a restart may bring the other one. The
\* other environments must not start.
EXTENDS FederatedSignIn, TLC

CONSTANTS b1, b2

Decl(protocol, name, issuer) ==
  [protocol |-> protocol, name |-> name, incomplete |-> FALSE, issuer |-> issuer,
   url |-> [scheme |-> "https", host |-> Named("idp.example.com")],
   map |-> {"valid"}, certs |-> {"good"}, callback |-> "wellformed",
   logout |-> IF protocol = "saml" THEN <<[scheme |-> "https", host |-> Ip(203, 0)]>> ELSE <<>>,
   algorithm |-> "sha256", domains |-> {"example.com"}]

MCLower == [n \in {"CORP", "Corp", "ACME", "BETA"} |->
              CASE n \in {"CORP", "Corp"} -> "corp" [] n = "ACME" -> "acme" [] n = "BETA" -> "beta"]
MCSigningKey == [i \in {"corp-idp", "tenant-a", "tenant-b"} |->
                   IF i = "corp-idp" THEN "k1" ELSE "k2"]

Corp == Decl("oidc", "CORP", "corp-idp")
Acme == Decl("saml", "ACME", "tenant-a")
Beta == Decl("saml", "BETA", "tenant-b")
Env(insecure, declared) == [insecure |-> insecure, declared |-> declared]

\* BETA has no logout URL yet.
Production == Env(FALSE, <<Acme, [Beta EXCEPT !.logout = <<>>]>>)
\* ACME has moved to OIDC, a development host.
Moved == Env(TRUE, <<[Decl("oidc", "ACME", "tenant-a") EXCEPT
                        !.url = [scheme |-> "http", host |-> Named("localhost")]],
                     Beta>>)

\* The last six must not start.
MCEnvs == [
  production |-> Production,
  moved |-> Moved,
  collision |-> Env(FALSE, <<Corp, [Acme EXCEPT !.name = "Corp"]>>),
  metadata |-> Env(TRUE, <<[Corp EXCEPT !.url.host = Ip(169, 254)]>>),
  private |-> Env(FALSE, <<[Corp EXCEPT !.url.host = Ip(172, 16)], Acme>>),
  plain |-> Env(FALSE, <<Corp, [Acme EXCEPT !.logout = <<[scheme |-> "http", host |-> Ip(203, 0)]>>]>>),
  domains |-> Env(FALSE, <<[Acme EXCEPT !.domains = {}]>>),
  certs |-> Env(FALSE, <<[Acme EXCEPT !.certs = {"good", "expired"}]>>)]
Symmetry == Permutations(Browsers)
=============================================================================
