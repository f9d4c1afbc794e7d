--------------------------- MODULE RemoteAdapters ---------------------------
(***************************************************************************)
(* What the three adapters make of one operation (src/backends, the        *)
(* adapter.ts, client.ts and upload files): which requests, in which       *)
(* order, which precondition each carries, what is compared between them,  *)
(* and what an answer means.  A call is a record with the operation, the   *)
(* object, the version the caller admitted (want), the requests still to   *)
(* send (plan) and what was learned so far.  Dropbox looks its bound       *)
(* folder up before each operation; that folder stays where it is, so this *)
(* lookup is one with the one after it.                                    *)
(***************************************************************************)
EXTENDS ProviderObjects

CONSTANTS NoVersion, Temp

ASSUME NoVersionAssumption == NoVersion \notin Nat

(* A temporary name is made up for one rename; nobody else has it.          *)
ASSUME TempAssumption ==
    Temp \in Name \ Shared /\ \A n \in Name \ {Temp} : Fold[n] # Fold[Temp]

(* The capability records.                                                  *)
exclusiveCreate == provider # "googledrive"
conditionalContentUpdate == IF provider = "dropbox" THEN "all" ELSE "none"
conditionalMetadataMutation == provider = "onedrive"

(* What an upload is made of.                                               *)
DropboxUpload == <<"write">>

OneDriveSession == <<"open", "write">>
OneDriveSimple == <<"put", "mtime">>
OneDriveUpload(form) == IF form = "empty" THEN OneDriveSimple ELSE OneDriveSession

DriveSession == <<"open", "write">>
DriveUpload(form) == IF form = "large" THEN DriveSession ELSE <<"write">>

UploadSteps(form) ==
    CASE provider = "dropbox"     -> DropboxUpload
      [] provider = "onedrive"    -> OneDriveUpload(form)
      [] provider = "googledrive" -> DriveUpload(form)

(* And a read bound to a version.                                           *)
DropboxRead == <<"fetch", "download">>
OneDriveDownload == <<"url", "download">>
OneDriveRead == <<"fetch">> \o OneDriveDownload \o <<"refetch">>
DriveRead == <<"fetch", "download", "refetch">>

ReadSteps ==
    CASE provider = "dropbox"     -> DropboxRead
      [] provider = "onedrive"    -> OneDriveRead
      [] provider = "googledrive" -> DriveRead

Script(op, form) ==
    CASE op = "read"   -> <<"observe">> \o ReadSteps
      [] op = "create" -> UploadSteps(form)
      [] op = "update" -> <<"fetch">> \o UploadSteps(form)
      [] op = "move"   -> <<"fetch", "rename">>
      [] op = "delete" -> <<"fetch", "remove">>

CaseOnlySteps == <<"tempFree", "targetFree", "aside", "home">>
EndpointSteps == <<"atOld", "atNew", "atTemp">>

Step(c) == Head(c.plan)

Mutations == {"write", "put", "mtime", "rename", "remove", "aside", "home", "back"}

(* Urls that authorise themselves are sent without the bearer.              *)
UsesBearer(c) == ~(provider = "onedrive" /\ Step(c) \in {"download", "write"})

-----------------------------------------------------------------------------
(* Requests that change something.  Dropbox addresses by path, the others   *)
(* by identity.                                                             *)
From(c) == CASE Step(c) \in {"aside", "write", "rename", "remove"} -> c.seenAt
             [] OTHER -> Temp
To(c) == CASE Step(c) = "aside" -> Temp
           [] Step(c) = "back" -> c.seenAt
           [] OTHER -> c.dest

Subject(c) ==
    CASE provider = "dropbox" -> Called(From(c))
      [] provider = "onedrive" -> {c.id} \ {o \in Id : ~Live(o)}
      [] OTHER -> {c.id}

Creates(c) == c.op = "create" /\ Step(c) \in {"open", "write", "put"}
Moves(c) == Step(c) \in {"rename", "aside", "home", "back"}

(* Mutant: Dropbox overwrites whatever revision is there.                   *)
DropboxOverwrites(c) == (Creates(c) \/ Moves(c)) /\ Called(To(c)) # {}

(* The preconditions a request carries, on the place it takes and on the    *)
(* version it replaces: in which cases it is refused.  Dropbox adds and     *)
(* moves without overwriting, updates one revision, and deletes whatever    *)
(* is at the path.                                                          *)
DropboxRefuses(c) ==
    \/ (Creates(c) \/ Moves(c)) /\ Called(To(c)) # {}
    \/ c.op = "update" /\ (Subject(c) = {} \/ \E o \in Subject(c) : objs[o].ver # c.seen)

(* A OneDrive session checks the tag when it is opened and the place also   *)
(* when it is closed; a plain upload both, and its date is set on its own   *)
(* version only.                                                            *)
OneDriveUploadRefuses(c) ==
    \/ Creates(c) /\ Called(c.dest) # {}
    \/ /\ ~Creates(c) /\ Step(c) \in {"open", "put", "mtime"}
       /\ \E o \in Subject(c) : objs[o].ver # c.seen

OneDriveChangeRefuses(c) ==
    \/ Moves(c) /\ Called(To(c)) \ {c.id} # {}
    \/ Step(c) \in {"rename", "remove"} /\ \E o \in Subject(c) : objs[o].ver # c.seen

Refuses(c) ==
    CASE provider = "dropbox"     -> DropboxRefuses(c)
      [] provider = "onedrive"    -> OneDriveUploadRefuses(c) \/ OneDriveChangeRefuses(c)
      [] provider = "googledrive" -> FALSE

(* What the service says to it: "ok", or the error the adapter translates.  *)
(* To delete what is gone succeeds.                                         *)
Answer(c) ==
    IF Refuses(c) THEN "target_changed"
    ELSE IF Creates(c) \/ Subject(c) # {} \/ Step(c) = "remove" THEN "ok"
    ELSE "not_found"

(* And what it does.                                                        *)
Effect(c) ==
    IF Step(c) = "open" THEN UNCHANGED <<objs, content>>
    ELSE IF Creates(c) THEN CreateAt(c.dest)
    ELSE IF Subject(c) = {} THEN UNCHANGED <<objs, content>>
    ELSE LET o == CHOOSE o \in Subject(c) : TRUE
         IN  CASE Step(c) \in {"write", "put"} -> Overwrite(o)
               [] Step(c) = "mtime" -> Relabel(o, objs[o].at)
               [] Moves(c) -> Relabel(o, To(c))
               [] Step(c) = "remove" -> Discard(o)

-----------------------------------------------------------------------------
(* Lookups, and what the adapter concludes.  A verdict is "next", "done" or *)
(* the error the operation ends with.                                       *)
Gone(c) == ~Live(c.id)

(* Dropbox finds a file wherever it is.                                     *)
LeftRoot(c) == provider = "dropbox" /\ objs[c.id].at = Outside

(* A managed read reports each of its outcomes but content as a plain       *)
(* error, which is classified as transient.                                 *)
ReadFails == "transient"

Missing(c) ==
    CASE c.op = "read"   -> ReadFails
      [] c.op = "delete" -> "done"
      [] OTHER           -> "not_found"

(* A caller that admitted no version gets no content and replaces none; a   *)
(* move or a deletion compares nothing for it.                              *)
Compared(c) ==
    IF c.want = objs[c.id].ver \/ (c.want = NoVersion /\ c.op \notin {"read", "update"}) THEN "next"
    ELSE IF c.op = "read" THEN ReadFails ELSE "target_changed"

DropboxFetch(c) ==
    IF Gone(c) \/ (LeftRoot(c) /\ c.op \in {"read", "delete"}) THEN Missing(c)
    ELSE IF LeftRoot(c) THEN "target_changed"
    ELSE Compared(c)

(* Without a version there is nothing to guard a change of metadata with.   *)
OneDriveGuard(c) ==
    IF c.op \in {"move", "delete"} /\ c.want = NoVersion THEN "unverifiable" ELSE Compared(c)

OneDriveFetch(c) == IF Gone(c) THEN Missing(c) ELSE OneDriveGuard(c)

DriveFetch(c) == IF Gone(c) THEN Missing(c) ELSE Compared(c)

FetchVerdict(c) ==
    CASE provider = "dropbox"     -> DropboxFetch(c)
      [] provider = "onedrive"    -> OneDriveFetch(c)
      [] provider = "googledrive" -> DriveFetch(c)

ObserveVerdict(c) == IF Gone(c) \/ LeftRoot(c) THEN ReadFails ELSE "next"

(* Mutant: looks only whether it is still there.                            *)
RefetchPresence(c) == IF Gone(c) THEN ReadFails ELSE "next"

(* The bytes are bound by looking again.                                    *)
RefetchVerdict(c) == IF Gone(c) \/ objs[c.id].ver # c.seen THEN ReadFails ELSE "next"

(* Only the request for a link fails for a file that is gone: a link works  *)
(* on, and Google Drive serves what is in its trash.                        *)
UrlVerdict(c) == IF Gone(c) THEN "not_found" ELSE "next"

TempFreeVerdict == IF Called(Temp) # {} THEN "target_changed" ELSE "next"

TargetFreeVerdict(c) ==
    IF \E o \in Called(c.dest) : o # c.id \/ objs[o].at = c.dest
      THEN "target_changed" ELSE "next"

Verdict(c) ==
    CASE Step(c) = "observe"    -> ObserveVerdict(c)
      [] Step(c) = "fetch"      -> FetchVerdict(c)
      [] Step(c) = "url"        -> UrlVerdict(c)
      [] Step(c) = "refetch"    -> RefetchVerdict(c)
      [] Step(c) = "tempFree"   -> TempFreeVerdict
      [] Step(c) = "targetFree" -> TargetFreeVerdict(c)
      [] OTHER                  -> "next"

(* The bytes a download brings: those of a revision, or those of now.       *)
Bytes(c) == IF provider = "dropbox" THEN content[c.want] ELSE content[objs[c.id].ver]

(* Whether the object is found, by itself, at the place an endpoint lookup  *)
(* asks about.                                                              *)
EndpointPlace(c) == CASE Step(c) = "atOld" -> c.seenAt
                      [] Step(c) = "atNew" -> c.dest
                      [] OTHER -> Temp
FoundThere(c) == Live(c.id) /\ objs[c.id].at = EndpointPlace(c)

CaseOnly(c) ==
    provider = "dropbox" /\ c.op = "move" /\ SameUpToCase(objs[c.id].at, c.dest)

-----------------------------------------------------------------------------
(* The retry policy over the error kinds.                                   *)
Retriable == {"rate_limit", "transient"}

RetryAgain(op, kind, attempt, max) == kind \in Retriable /\ attempt < max /\ op # "move"
=============================================================================
