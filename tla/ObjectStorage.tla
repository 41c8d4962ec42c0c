---------------------------- MODULE ObjectStorage ----------------------------
(***************************************************************************)
(* The storage broker (internal/storagests): workloads exchange a projected  *)
(* token for storage credentials, and administrators list, upload, download  *)
(* and delete objects through credentials the broker obtains for one request.*)
(*                                                                         *)
(* The object store is outside Tikti: one object under one key, whose        *)
(* version (ETag) other clients replace or remove at any time.  Replies get  *)
(* lost, and the administrator repeats the request.                          *)
(***************************************************************************)
EXTENDS WorkloadExchange

CONSTANTS Etags

VARIABLES
  object,      \* the object's version, or Nothing
  bucket       \* does the bucket exist

storage == <<object, bucket>>
elsewhereUnchanged == UNCHANGED <<keys, stores>>

----------------------------------------------------------------------------
(* Programs *)

(* Service.Exchange: the slot is taken before the token is verified. *)
StsExchange ==
  <<Via("slot", "sts"), Do("verify"), Via("ask", "sts"), Do("provider"), Via("release", "sts")>>

(* AdminService.authorize: credentials for one administrative request. *)
AdminAuthorize ==
  <<Via("slot", "admin"), Do("validate"), Via("ask", "admin"), Do("provider"),
    Via("release", "admin")>>

StorageProgram(p) ==
  CASE p.kind = "sts"    -> StsExchange
    [] p.kind = "list"   -> AdminAuthorize \o <<Do("listing")>>
    [] p.kind = "upload" -> AdminAuthorize \o <<Do("presign")>>
    [] p.kind = "delete" -> AdminAuthorize \o <<Do("remove"), Do("head"), Do("probe")>>

StorageKinds == {"sts", "list", "upload", "delete"}

----------------------------------------------------------------------------
(* Steps *)

(* ValidateAccessToken (module AccessTokens), MinIOClient.Exchange and the    *)
(* listing either serve the request or end it.                               *)
Remote(c, op, code) ==
  /\ At(c, op)
  /\ Continue(c, call[c]) \/ Refuse(c, code)
  /\ UNCHANGED <<hist, storage>> /\ elsewhereUnchanged

(* AuthorizerClient.Authorize and AdminAuthorizerClient.AuthorizeAdmin *)
AskStorage(c) ==
  Answered(c, "sts", {"denied", "unavailable", "internal"}) /\ UNCHANGED storage
AskAdmin(c) ==
  Answered(c, "admin", {"denied", "unavailable", "internal"}) /\ UNCHANGED storage

ValidateAdminToken(c) == Remote(c, "validate", "invalid")
ProviderExchange(c) == Remote(c, "provider", "unavailable")
ListObjects(c) == Remote(c, "listing", "unavailable")

(* CreateUploadURL: the decision's limits, then a URL signed locally. *)
Presign(c) == Remote(c, "presign", "tooLarge")

Confirm(c) == call' = [call EXCEPT ![c] = Granting(call[c])]

(* The object's versions, as the calls under way could see them. *)
Become(version, by) ==
  /\ object' = version
  /\ hist' = [d \in Callers |->
       [hist[d] EXCEPT !.versions = @ \cup {version},
                       !.removed = IF d = by THEN @ \cup {object} ELSE @]]

(* Mutant: the condition is not sent. *)
AnyVersion(c) == bucket /\ object # Nothing

(* The DELETE carries If-Match with the version that was listed. *)
Matches(c) == bucket /\ object = Plan(c).etag

(* DeleteObject: the store applies the condition; a reply that is lost leaves *)
(* the caller with an error and is not retried here.                         *)
RemoveObject(c) ==
  /\ At(c, "remove")
  /\ \/ Matches(c) /\ Become(Nothing, c) /\ (Confirm(c) \/ Refuse(c, "unavailable"))
     \/ ~Matches(c) /\ bucket /\ Continue(c, call[c]) /\ UNCHANGED <<hist, object>>
     \/ Refuse(c, "unavailable") /\ UNCHANGED <<hist, object>>
  /\ UNCHANGED bucket /\ elsewhereUnchanged

(* resolveConditionalDelete: the precondition failed, look at what is there. *)
HeadObject(c) ==
  /\ At(c, "head")
  /\ \/ bucket /\ object = Nothing /\ Continue(c, call[c])
     \/ object \notin {Nothing, Plan(c).etag} /\ Refuse(c, "changed")
     \/ Refuse(c, "unavailable")
  /\ UNCHANGED <<hist, storage>> /\ elsewhereUnchanged

(* requireBucketExists *)
ProbeBucket(c) ==
  /\ At(c, "probe")
  /\ \/ bucket /\ Continue(c, call[c])
     \/ Refuse(c, "unavailable")
  /\ UNCHANGED <<hist, storage>> /\ elsewhereUnchanged

Storing(c) ==
  \/ AskStorage(c) \/ AskAdmin(c) \/ ValidateAdminToken(c) \/ ProviderExchange(c) \/ ListObjects(c) \/ Presign(c)
  \/ RemoveObject(c) \/ HeadObject(c) \/ ProbeBucket(c)

(* External: other clients of the object store. *)
ChangeObject(version) ==
  /\ Happens(<<"object", version>>) /\ bucket
  /\ Become(version, Nothing)
  /\ UNCHANGED <<world, clock, call, bucket>> /\ elsewhereUnchanged

DropBucket ==
  /\ Happens(<<"bucket">>)
  /\ bucket' = FALSE /\ Become(Nothing, Nothing)
  /\ UNCHANGED <<world, clock, call>> /\ elsewhereUnchanged

StorageInit == object = world.object /\ bucket = TRUE

----------------------------------------------------------------------------
(* A delete is confirmed only if the key was absent at a moment during the    *)
(* request, "changed" is answered only if another version was there, and a    *)
(* request removes nothing but the version that was listed, also when it      *)
(* repeats one whose answer was lost while others replace the object          *)
(* (DeleteObject, resolveConditionalDelete).                                  *)
DeleteAnswersTrue ==
  \A c \in Callers : Plan(c).kind = "delete" =>
    /\ Granted(c) => Nothing \in hist[c].versions
    /\ call[c].out = "changed" => hist[c].versions \ {Nothing, Plan(c).etag} # {}
    /\ hist[c].removed \subseteq {Plan(c).etag}
=============================================================================
