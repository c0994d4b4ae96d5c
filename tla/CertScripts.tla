---------------------------- MODULE CertScripts ----------------------------
(***************************************************************************)
(* Certificates of an Ingress: uploaded, or obtained from Let's Encrypt by *)
(* answering a challenge on the domain, for which a temporary Ingress is   *)
(* made that leads to casos itself.  Who asks when, and what the page says *)
(* of it meanwhile, is in Certificates.                                    *)
(***************************************************************************)
EXTENDS ApiCalls

(* The secret is written as a whole; a read that fails is taken for a      *)
(* secret that is not there.                                               *)
StoreTLSSecret     == <<Quiet(Look("tls secret")), Plain(Replaces(Save("tls secret")))>>
AttachTLSToIngress == <<Edit("ingress")>>
GetTLSCertExpiry   == <<Quiet(Look("tls secret"))>>
UploadCert         == StoreTLSSecret \o AttachTLSToIngress \o GetTLSCertExpiry

(* A key that cannot be read is made anew, and takes the place of one that *)
(* turns up; if it could not be kept it is used all the same.              *)
ensureACMEAccountKey == <<Quiet(Look("account key")), Quiet(Plain(Replaces(Fill("account key"))))>>

(* A Service of somebody else under casos' name, or its endpoints, end the *)
(* preparation but not the flow.  Endpoints of the other address family    *)
(* are replaced.                                                           *)
ensureCasosBackend ==
    [kept  |-> <<Aside(Tolerates(Put("backend"))), Aside(Tolerates(Put("endpoints")))>>,
     moved |-> <<Aside(Tolerates(Put("backend"))), Aside(Shed("endpoints")),
                 Create("endpoints")>>]

(* From the temporary Ingress on, whatever happens it is deleted at the    *)
(* end, whether or not that works.                                         *)
createChallengeIngress == <<Plain(Create("challenge"))>>
deleteChallengeIngress == <<Quiet(Drop("challenge"))>>
obtained == <<Run("finalize")>> \o StoreTLSSecret \o AttachTLSToIngress
answerChallenge == createChallengeIngress \o undone(<<Run("accept")>> \o obtained)

(* A domain that Let's Encrypt still holds for verified has no challenge.  *)
ordered == ensureACMEAccountKey \o <<Run("register"), Run("order")>>
ObtainLECert ==
    [b \in {"kept", "moved"} |->
       [Does(ordered \o ensureCasosBackend[b] \o answerChallenge \o deleteChallengeIngress)
          EXCEPT !.undo = deleteChallengeIngress, !.other = answerChallenge \o deleteChallengeIngress]]
ObtainLECertValid == ordered \o obtained

certScripts ==
    [UploadCert    |-> Does(UploadCert),
     GetCertStatus |-> Does(GetTLSCertExpiry),
     ObtainLECert      |-> ObtainLECert["kept"],
     ObtainLECertMoved |-> ObtainLECert["moved"],
     ObtainLECertValid |-> Does(ObtainLECertValid)]
=============================================================================
