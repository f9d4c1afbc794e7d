--------------------------- MODULE MCTransferBatch ---------------------------
(***************************************************************************)
(* Small plans for TLC: a transfer and a create beside it, four creates, a *)
(* create and a deletion after it, or one structural call alone, over a    *)
(* pool of two.                                                            *)
(* One file exists, of version 1, under the name "a".                      *)
(***************************************************************************)
EXTENDS TransferBatch

CONSTANTS t1, t2, t3, t4

MCTask == {t1, t2, t3, t4}
MCOrder == <<t1, t2, t3, t4>>
MCSize == [t \in MCTask |-> IF t = t1 THEN 2 ELSE 1]
MCId == 1 .. 6
MCName == {"a", "A", "b", "c", "temp"}
MCShared == {"a", "A", "b"}
MCFold == [n \in MCName |-> IF n = "A" THEN "a" ELSE n]

Call(op, form, id, want, dest) ==
    [op |-> op, form |-> form, id |-> id, want |-> want, dest |-> dest,
     phase |-> "new", plan |-> <<>>, seen |-> 0, seenAt |-> Outside, got |-> 0,
     resent |-> FALSE, waits |-> 0, attempt |-> 1, stage |-> "none", saved |-> "none",
     blind |-> FALSE, caseOnly |-> FALSE, denial |-> "none", outcome |-> "pending"]

(* A task the plan does not have.                                           *)
Absent == [Call("read", "small", 1, NoVersion, "a") EXCEPT !.phase = "done", !.outcome = "absent"]

Forms(p) == {"small"} \union (IF p = "googledrive" THEN {"large"} ELSE {})
                      \union (IF p = "onedrive" THEN {"empty"} ELSE {})

Firsts(p) ==
    {Call("read", "small", 1, NoVersion, "a")}
      \union {Call("update", f, 1, 1, "a") : f \in Forms(p)}
      \union {Call("update", "small", 1, NoVersion, "a")}
      \union {Call("create", f, 1, NoVersion, "b") : f \in Forms(p)}

Structurals ==
    {Call(op, "small", 1, w, d) : op \in {"move"}, w \in {1, NoVersion}, d \in {"A", "b"}}
      \union {Call("delete", "small", 1, w, "a") : w \in {1, NoVersion}}

OneFile == [o \in MCId |-> IF o = 1 THEN [live |-> TRUE, at |-> "a", ver |-> 1] ELSE NoFile]

Batch(p, quiet, fails, cs) ==
    [provider |-> p, objs |-> OneFile, content |-> <<1>>,
     others |-> IF quiet THEN MaxOther ELSE 0, faults |-> fails,
     calls |-> [t \in MCTask |->
                  IF \E i \in 1 .. Len(cs) : MCOrder[i] = t
                    THEN cs[CHOOSE i \in 1 .. Len(cs) : MCOrder[i] = t] ELSE Absent]]

Create(n) == Call("create", "small", 1, NoVersion, n)

(* Any transfer beside a create, and four creates for a pool of two.        *)
Transfers ==
    UNION {{Batch(p, FALSE, 1, <<c, Create("c")>>) : c \in Firsts(p)} : p \in Provider}
      \union {Batch("googledrive", TRUE, 1,
                    <<Create("b"), Create("c"), Create("A"), Create("temp")>>)}
      \union {Batch("googledrive", TRUE, 1, <<Create("c"), Call("delete", "small", 1, 1, "a")>>)}

Lone == {Batch(p, FALSE, 3, <<c>>) : p \in Provider, c \in Structurals}

MCBatches == Transfers \union Lone
=============================================================================
