---------------------------- MODULE MCHttpSession ----------------------------
(***************************************************************************)
(* A host of a site and an address; headers that name no domain, the site  *)
(* or the host, at which the address must not be believed; one cookie is   *)
(* secure, one expires, and one deletes.                                   *)
(***************************************************************************)
EXTENDS HttpSession, TLC

Site == <<"example">>
Api == <<"api", "example">>
Local == <<"127", "0", "0", "1">>

MCIpAddresses == {Local}

MCBaseUrl == [host |-> Api, path |-> <<"v1", "users">>, https |-> TRUE]
MCProviderUrl == [host |-> Api, path |-> <<"login">>, https |-> TRUE]

MCUrls ==
  {MCBaseUrl,
   [host |-> Api, path |-> <<"v1", "">>, https |-> FALSE],
   [host |-> Local, path |-> <<"v1", "users">>, https |-> TRUE]}

Header(domain, path, secure, maxAge) ==
  [name |-> "sid", domain |-> domain, path |-> path, secure |-> secure, maxAge |-> maxAge]

MCHeaders ==
  {Header(<<>>, <<>>, FALSE, {}),
   Header(<<>>, <<"">>, TRUE, {}),
   Header(Site, <<"">>, FALSE, {0}),
   Header(Api, <<"v1">>, FALSE, {-1})}

Symmetry == Permutations(Calls) \cup Permutations(Logins)

=============================================================================
