---------------------------- MODULE MCAuthSession ----------------------------
(* Instances of AuthSession: who belongs where, and what the roles may do. *)
EXTENDS AuthSession, TLC

CONSTANTS u1, u2, x1, x2

(* u1 belongs to two organizations and claims the first; u2 to the second. *)
MCMembers == {<<u1, x1, "member">>, <<u1, x2, "member">>, <<u2, x2, "organization_admin">>}
MCClaim   == (u1 :> x1) @@ (u2 :> NoTenant)

(* In the first organization the administrator promotes u1, ends u1's membership or  *)
(* takes u2 in, who then belongs to two and claims neither.                          *)
MCChanges == {<<u1, x1, "organization_admin", TRUE>>, <<u1, x1, "member", FALSE>>,
              <<u2, x1, "member", TRUE>>}

(* The rows the session routes ask for. *)
AskedRows == {<<"organization_admin", ReadTenant[1], ReadTenant[2]>>,
              <<"member", ReadTenant[1], ReadTenant[2]>>,
              <<"organization_admin", ManageMembership[1], ManageMembership[2]>>}
=============================================================================
