----------------------------- MODULE RowScripts -----------------------------
(***************************************************************************)
(* The tables of casos: machines, sites, policy rules, access tokens and   *)
(* users.  A row has no version: an update writes all columns of whatever  *)
(* row there is, and one that finds none is no error.  What becomes of the *)
(* enforcers that are built from the rules is in PolicyEnforcer.           *)
(***************************************************************************)
EXTENDS ApiCalls

machines == [GetGlobalMachines |-> <<Look("machine")>>, GetMachine |-> <<Look("machine")>>,
             AddMachine |-> <<Create("machine")>>, UpdateMachine |-> <<Look("machine"), Amend("machine")>>]

(* A machine that joined over the internet holds a Node, a place on the    *)
(* overlay and a credential, and goes last, after all of them; one whose   *)
(* row cannot be read is taken for one that did not.                       *)
RemoveMeshMember == <<Clear("mesh node"), Quiet(Run("overlay")), Clear("credential"), Clear("machine")>>
DeleteMachine == DoesElse(<<Else(Look("machine"))>> \o RemoveMeshMember, <<Clear("machine")>>)

sites == [GetGlobalSites |-> <<Look("site")>>, GetSite |-> <<Look("site")>>,
          GetBuiltInSite |-> <<Look("built-in site")>>,
          AddSite |-> <<Create("site")>>, UpdateSite |-> <<Look("site"), Amend("site")>>,
          DeleteSite |-> <<Clear("site")>>]
InitSite == <<Quiet(Keep("built-in site"))>>

reloadEnforcer == <<Look("rule"), Run("enforcer")>>
rules == [GetCasbinRules |-> <<Look("rule")>>,
          AddCasbinRule |-> <<Create("rule")>> \o reloadEnforcer,
          DeleteCasbinRule |-> <<Clear("rule")>> \o reloadEnforcer,
          ReloadCasbinEnforcer |-> reloadEnforcer]
SeedDefaultPolicies == <<Keep("rule")>>

(* A secret is shown once: a token whose answer is lost exists, and nobody *)
(* knows it.                                                               *)
AddAccessToken    == <<Free("token"), Create("token")>>
DeleteAccessToken == <<Drop("token")>>
VerifyAccessToken == <<Get("token"), Get("user"), Quiet(Amend("token"))>>
tokens == [GetAccessTokens |-> <<Look("token")>>, AddAccessToken |-> AddAccessToken,
           DeleteAccessToken |-> DeleteAccessToken, VerifyAccessToken |-> VerifyAccessToken]

VerifyUser    == <<Get("user")>>
UpdateAccount == <<Get("user"), Amend("user"), Amend("user")>>
accounts == [SigninWithPassword |-> VerifyUser \o <<Run("session")>>,
             Signin |-> <<Run("casdoor"), Run("session")>>,
             Signout |-> <<Run("session")>>,
             GetAccount |-> <<Quiet(Get("user"))>> \o VerifyUser \o <<Run("session")>>,
             GetSigninOptions |-> <<Quiet(Look("user"))>>,
             UpdateAccount |-> UpdateAccount \o <<Run("session")>>]
InitUsers == <<Keep("user")>>

rowCalls == machines @@ sites @@ rules @@ tokens @@ accounts
              @@ [InitSite |-> InitSite, InitUsers |-> InitUsers, SeedDefaultPolicies |-> SeedDefaultPolicies]
rowScripts == [n \in DOMAIN rowCalls |-> Does(rowCalls[n])] @@ [DeleteMachine |-> DeleteMachine]
=============================================================================
