------------------------------ MODULE MCFiles -------------------------------
(***************************************************************************)
(* Files and DirEntries for model checking.  They share no state, so a     *)
(* behaviour is one of Files, or one of DirEntries with either of two      *)
(* sets of bounds; `part' says which, and the variables of the other stay  *)
(* at their initial values.                                                *)
(*                                                                         *)
(* Inodes are interchangeable: the tracer only compares them.              *)
(***************************************************************************)
EXTENDS Files, TLC

InodesInterchangeable == Permutations(Ino)

MostFiles == [b \in Programs |-> IF "bind" \in b THEN 2 ELSE 3]

VARIABLES part, live, ended, group, tables, pos, host, rewinds, opener, dirEntries,
          numbered, dents, shown, portion

dirVars == <<live, ended, group, tables, pos, host, rewinds, opener, dirEntries,
             numbered, dents, shown, portion>>

(* Two processes with a descriptor table each, and portions of a listing   *)
(* of three names; every process reads what it has opened.                 *)
Own == INSTANCE DirEntries WITH
  Task <- {1, 2}, First <- 1, Desc <- {"d1", "d2"}, NoDesc <- "none", MaxFd <- 1,
  Names <- {1, 2, 3}, LongName <- 2, Sizes <- {3}, Flavour <- {"getdents64"},
  dirEntriesBytes <- 4, MaxRewinds <- 1, MaxRaw <- 8, Behaviours <- {"fork", "exit", "dup"},
  files <- tables, inodeMap <- numbered, call <- dents, reply <- portion

(* One descriptor, used in every way there is.                             *)
Shared == INSTANCE DirEntries WITH
  Task <- {1, 2}, First <- 1, Desc <- {"d1"}, NoDesc <- "none", MaxFd <- 0,
  Names <- {1, 2}, LongName <- 2, Sizes <- {1, 2}, Flavour <- {"getdents"},
  dirEntriesBytes <- 4, MaxRewinds <- 1, MaxRaw <- 3,
  Behaviours <- {"rewind", "fork", "thread", "exit", "share", "dup2", "smaller buffer", "cloexec"},
  files <- tables, inodeMap <- numbered, call <- dents, reply <- portion

Idling == InitialState({"bind"}, CHOOSE l \in Location : TRUE, CHOOSE i \in Ino : TRUE)

MCInit ==
  \/ part = "files" /\ Init /\ Own!InitialState(<<1, 2, 3>>)
  \/ part = "own" /\ Idling /\ Own!Init
  \/ part = "shared" /\ Idling /\ Shared!Init

MCNext ==
  \/ part = "files" /\ Next /\ UNCHANGED <<part, dirVars>>
  \/ part = "own" /\ Own!Next /\ UNCHANGED <<part, vars>>
  \/ part = "shared" /\ Shared!Next /\ UNCHANGED <<part, vars>>

MCSpec == MCInit /\ [][MCNext]_<<part, vars, dirVars>>

-----------------------------------------------------------------------------
(* The properties of DirEntries.                                           *)

(* When getdents returns 0, its reader has been shown every name: no chunk *)
(* is lost between the replays of handleDents and the portions of          *)
(* getSortedEntries.                                                       *)
ListingComplete == part = "own" => Own!ListingComplete

(* The host's order of a directory does not show: a listing is sorted and  *)
(* has no name twice, however the buffer cuts it (sortOurEntries), and     *)
(* virtual inodes are given out in the order of the sorted listing         *)
(* (virtualizeEntries sees the sorted portions only).                      *)
HostOrderHidden == part = "own" => Own!ListingSorted /\ Own!NumberedAsListed
=============================================================================
