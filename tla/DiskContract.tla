---------------------------- MODULE DiskContract ----------------------------
(***************************************************************************)
(* IDiskReader (include/ntfs-browser/disk-reader.h): what any reader of a  *)
(* medium promises, whatever it reads ahead. A read of a range gives the   *)
(* bytes the open medium has there, or fails when the medium cannot be     *)
(* read there. A hint changes when bytes are read, never which.            *)
(***************************************************************************)
EXTENDS Integers

CONSTANTS
  Media,      \* what can be opened
  NoMedium,   \* nothing is open
  BadOf,      \* the addresses of each medium that cannot be read
  AddrMax,    \* the addresses are 0 .. AddrMax - 1
  NoAnswer    \* the last call was no read, or is not answered yet

VARIABLES
  medium,     \* what is open
  request,    \* the range asked for
  answer      \* what the read returned

vars == <<medium, request, answer>>

Range(r) == r.start .. (r.start + r.len - 1)

Readable(m, r) ==
  /\ m # NoMedium
  /\ r.start >= 0
  /\ Range(r) \subseteq 0..(AddrMax - 1)
  /\ Range(r) \cap BadOf[m] = {}

\* The byte of medium m at address a.
Content(m, a) == <<m, a>>

Bytes(m, r) == [i \in 0..(r.len - 1) |-> Content(m, r.start + i)]

Failure == [ok |-> FALSE, bytes |-> <<>>]
Success(m, r) == [ok |-> TRUE, bytes |-> Bytes(m, r)]

NoRequest == [start |-> 0, len |-> 0]

Init ==
  /\ medium \in Media \cup {NoMedium}
  /\ request = NoRequest
  /\ answer = NoAnswer

Open ==
  /\ medium' \in Media \cup {NoMedium}
  /\ answer' = NoAnswer
  /\ UNCHANGED request

Ask ==
  /\ request' \in [start : Int, len : Nat]
  /\ answer' = NoAnswer
  /\ UNCHANGED medium

\* The one answer there is for the range and the medium.
Answer ==
  /\ answer = NoAnswer
  /\ answer' = IF Readable(medium, request) THEN Success(medium, request) ELSE Failure
  /\ request' = NoRequest
  /\ UNCHANGED medium

\* Hints, and questions about the size or the kind of the medium.
Hint ==
  /\ answer' = NoAnswer
  /\ UNCHANGED <<medium, request>>

Next == Open \/ Ask \/ Answer \/ Hint

Spec == Init /\ [][Next]_vars
=============================================================================
