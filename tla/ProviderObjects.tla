--------------------------- MODULE ProviderObjects ---------------------------
(***************************************************************************)
(* The storage service at the other end, as the three clients under        *)
(* src/backends use it: files with an identity, a place and a version, and *)
(* the other devices that change them meanwhile.  Versions are numbered in *)
(* the order the service made them, and content[v] says which version      *)
(* first had the bytes of version v.  A file that is not live is in the    *)
(* trash.  The service itself is not in the repository.                    *)
(***************************************************************************)
EXTENDS Naturals, Sequences

CONSTANTS
    Id,         \* identities, in the order the service hands them out (the
                \* bound on the files there can be)
    Name,       \* the paths used
    Shared,     \* those of them that other devices use
    Fold,       \* what a path is, ignoring case
    Outside,    \* anywhere but in the bound folder
    MaxOther    \* bound on the changes of other devices

ASSUME FoldAssumption == Id \subseteq Nat /\ Shared \subseteq Name /\ Outside \notin Name /\ DOMAIN Fold = Name

VARIABLES provider, objs, content, others

service == <<provider, objs, content, others>>

Provider == {"googledrive", "dropbox", "onedrive"}

NoFile == [live |-> FALSE, at |-> Outside, ver |-> 0]

ServiceTypeOK ==
    /\ provider \in Provider
    /\ objs \in [Id -> [live : BOOLEAN, at : Name \union {Outside}, ver : 0 .. Len(content)]]
    /\ content \in Seq(Nat)
    /\ others \in 0 .. MaxOther

Live(o) == objs[o].live

(* The files a path names; Google Drive allows several of one name and      *)
(* tells names apart by case.                                               *)
Called(n) ==
    {o \in Id : Live(o) /\ objs[o].at # Outside
                        /\ IF provider = "googledrive" THEN objs[o].at = n
                           ELSE Fold[objs[o].at] = Fold[n]}

SameUpToCase(m, n) == m # n /\ m # Outside /\ Fold[m] = Fold[n]

Unborn == {o \in Id : objs[o].ver = 0}
NextId == CHOOSE o \in Unborn : \A p \in Unborn : o <= p

Newest == Len(content) + 1

(* The changes the service makes.                                           *)
CreateAt(n) ==
    /\ Unborn # {}
    /\ objs' = [objs EXCEPT ![NextId] = [live |-> TRUE, at |-> n, ver |-> Newest]]
    /\ content' = Append(content, Newest)

Overwrite(o) ==
    /\ objs' = [objs EXCEPT ![o].ver = Newest]
    /\ content' = Append(content, Newest)

(* A change that keeps the bytes is a new version, except of a Dropbox      *)
(* revision, which is of the content alone.                                 *)
Relabel(o, n) ==
    IF provider = "dropbox"
      THEN objs' = [objs EXCEPT ![o].at = n] /\ UNCHANGED content
      ELSE /\ objs' = [objs EXCEPT ![o].at = n, ![o].ver = Newest]
           /\ content' = Append(content, content[objs[o].ver])

Discard(o) ==
    /\ objs' = [objs EXCEPT ![o].live = FALSE]
    /\ UNCHANGED content

Free(n) == provider = "googledrive" \/ Called(n) = {}

OtherDevice ==
    /\ others < MaxOther
    /\ others' = others + 1
    /\ \/ \E o \in Id : Live(o) /\ (Overwrite(o) \/ Discard(o))
       \/ \E o \in Id, n \in Shared :
             Live(o) /\ n # objs[o].at /\ Called(n) \subseteq {o} /\ Relabel(o, n)
       \/ \E o \in Id : Live(o) /\ objs[o].at # Outside /\ Relabel(o, Outside)
       \/ \E n \in Shared : Free(n) /\ CreateAt(n)
    /\ UNCHANGED provider
=============================================================================
