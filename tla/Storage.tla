------------------------------ MODULE Storage -------------------------------
(***************************************************************************)
(* FileStorage: save_file, get_file and delete_file on one path, by        *)
(* callers at the same time.  get_file and delete_file ask for the head of *)
(* the file before they act, and the file may come or go in between.       *)
(*                                                                         *)
(* External (object_store): an object appears whole when its writer is     *)
(* shut down, and not at all when it is dropped before; a body that is     *)
(* being read stays the object it was; deleting what is not there is an    *)
(* error on the local file system and none on S3; a range is cut off at    *)
(* the end of the object, and one that starts there or is empty is refused.*)
(***************************************************************************)
EXTENDS Naturals

CONSTANTS
    Callers,
    Contents,
    Size,       \* of each content
    Largest,    \* u64
    Ranges,     \* bound: the ranges asked for
    NoContent,
    WholeFile

ASSUME StorageOK ==
    /\ Size \in [Contents -> Nat]
    /\ Largest \in Nat
    /\ Ranges \subseteq (0 .. Largest) \X (0 .. Largest)
    /\ NoContent \notin Contents
    /\ {"ok", "400", "404", "500"} \intersect (Contents \union {NoContent}) = {}
    /\ WholeFile \notin Ranges

VARIABLES
    kind,    \* of store: "Local" or "S3"
    stored,  \* the content at the path, or NoContent
    calls    \* what each caller is at

storageVars == <<kind, stored, calls>>

(* What a call does, with what, its answer, and what was stored meanwhile.  *)
Call(does, at, with, seen) ==
    [does |-> does, at |-> at, with |-> with, answer |-> NoContent, seen |-> seen,
     failed |-> FALSE]

Answers(c, answer) ==
    [calls EXCEPT ![c].at = "answered", ![c].answer = answer]

Fails(c, answer) ==
    [calls EXCEPT ![c].at = "answered", ![c].answer = answer, ![c].failed = TRUE]

(* GetRange::Bounded(start..end + 1), in 64 bits: end + 1 wraps around in   *)
(* a release build (a debug build panics).                                 *)
Bounded(range) == <<range[1], (range[2] + 1) % (Largest + 1)>>

Satisfiable(range, content) ==
    \/ range = WholeFile
    \/ /\ Bounded(range)[1] < Bounded(range)[2]
       /\ Bounded(range)[1] < Size[content]

-----------------------------------------------------------------------------
(* The calls *)

StorageInit ==
    /\ kind \in {"Local", "S3"}
    /\ stored = NoContent
    /\ calls = [c \in Callers |-> Call("nothing", "answered", NoContent, {})]

Resting(c) == calls[c].at = "answered"

(* What those under way see when the file changes.                         *)
See(content) ==
    [c \in Callers |-> IF Resting(c) THEN calls[c]
                       ELSE [calls[c] EXCEPT !.seen = @ \union {content}]]

(* save_file: the content is copied, and put when the writer shuts down.   *)
SaveFile(c, content) ==
    /\ Resting(c)
    /\ calls' = [calls EXCEPT ![c] = Call("save", "copying", content, {stored})]
    /\ UNCHANGED <<kind, stored>>

Put(c) ==
    /\ calls[c].does = "save" /\ calls[c].at = "copying"
    /\ stored' = calls[c].with
    /\ calls' = [See(stored') EXCEPT ![c].at = "answered", ![c].answer = "ok"]
    /\ UNCHANGED kind

GetFile(c, range) ==
    /\ Resting(c)
    /\ calls' = [calls EXCEPT ![c] = Call("get", "head", range, {stored})]
    /\ UNCHANGED <<kind, stored>>

DeleteFile(c) ==
    /\ Resting(c)
    /\ calls' = [calls EXCEPT ![c] = Call("delete", "head", NoContent, {stored})]
    /\ UNCHANGED <<kind, stored>>

(* Mutant: any answer to the head counts. *)
Exists_Always == TRUE

Exists == stored # NoContent

AskHead(c) ==
    /\ calls[c].at = "head"
    /\ calls' = IF Exists THEN [calls EXCEPT ![c].at = "act"]
                ELSE Answers(c, IF calls[c].does = "get" THEN "404" ELSE "ok")
    /\ UNCHANGED <<kind, stored>>

(* get_opts: a file that is gone, like a bad range, is an error of the     *)
(* store.                                                                  *)
Get(c) ==
    /\ calls[c].does = "get" /\ calls[c].at = "act"
    /\ calls' = Answers(c, IF stored # NoContent /\ Satisfiable(calls[c].with, stored)
                             THEN stored ELSE "500")
    /\ UNCHANGED <<kind, stored>>

DeleteObject(c) ==
    /\ calls[c].does = "delete" /\ calls[c].at = "act"
    /\ stored' = NoContent
    /\ calls' = [See(NoContent) EXCEPT
                  ![c].at = "answered",
                  ![c].answer = IF stored = NoContent /\ kind = "Local" THEN "500" ELSE "ok"]
    /\ UNCHANGED kind

(* The reader, or the store itself, fails: 400 where exists() says so, 500 *)
(* elsewhere, and nothing is stored.                                       *)
Fail(c) ==
    /\ ~Resting(c)
    /\ calls' = Fails(c, IF calls[c].at = "head" THEN "400" ELSE "500")
    /\ UNCHANGED <<kind, stored>>

StorageNext ==
    \E c \in Callers :
      \/ \E content \in Contents : SaveFile(c, content)
      \/ \E range \in Ranges \union {WholeFile} : GetFile(c, range)
      \/ DeleteFile(c)
      \/ Put(c) \/ AskHead(c) \/ Get(c) \/ DeleteObject(c) \/ Fail(c)

StorageSpec == StorageInit /\ [][StorageNext]_storageVars

-----------------------------------------------------------------------------
(* Properties *)

StorageTypeOK ==
    /\ stored \in Contents \union {NoContent}
    /\ \A c \in Callers :
         /\ calls[c].does \in {"nothing", "save", "get", "delete"}
         /\ calls[c].at \in {"copying", "head", "act", "answered"}
         /\ calls[c].seen \subseteq Contents \union {NoContent}

(* What a caller is told was true of the file at a moment of its call: 404 *)
(* and a successful delete say that there was none, a body that it was the *)
(* content.  Only a file that came and went under a call, a bad range or a *)
(* store that failed make an answer 500.                                   *)
AnswersTrue ==
    \A c \in Callers :
      LET q == calls[c]
      IN  Resting(c) /\ ~q.failed =>
            /\ q.answer \in Contents => q.does = "get" /\ q.answer \in q.seen
            /\ q.answer = "404" => NoContent \in q.seen
            /\ q.answer = "ok" /\ q.does = "delete" => NoContent \in q.seen
            /\ q.answer = "ok" /\ q.does = "save" => q.with \in q.seen
            /\ q.answer = "500" =>
                 \/ NoContent \in q.seen /\ q.seen # {NoContent}
                 \/ q.does = "get" /\ \E x \in q.seen \ {NoContent} : ~Satisfiable(q.with, x)
=============================================================================
