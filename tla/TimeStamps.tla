----------------------------- MODULE TimeStamps -----------------------------
(***************************************************************************)
(* tabulator::TimeStamp (mergerApp/src/tablebuffer.h): the EPICS time of a *)
(* row extended with its user tag (the pulse id).  Every decision of the   *)
(* merger is a comparison of two of these, so a time is a natural number   *)
(* of ticks and a tag a natural number; the split into seconds and         *)
(* nanoseconds and the 32-bit width of the seconds are left out.           *)
(***************************************************************************)
EXTENDS Naturals

TimeStamp == [ts : Nat, utag : Nat]

\* A stamp built from a time alone: the aggregate initialiser of the code
\* leaves utag at zero.
Untagged(t) == [ts |-> t, utag |-> 0]

\* operator < : by time, then by tag.
Less(a, b) == \/ a.ts < b.ts
              \/ a.ts = b.ts /\ a.utag < b.utag

\* operator <= : less or equal (operator >= is the negation of <).
LessEq(a, b) == Less(a, b) \/ a = b

\* The first and the last stamp of a non-empty set: *begin() and *rbegin()
\* of a std::set<TimeStamp>, std::min and std::max over a list.
Earliest(S) == CHOOSE s \in S : \A o \in S : LessEq(s, o)
Latest(S)   == CHOOSE s \in S : \A o \in S : LessEq(o, s)
=============================================================================
