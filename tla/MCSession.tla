------------------------------- MODULE MCSession -------------------------------
(* Instances of Session for TLC. *)
EXTENDS Session

MCFeed ==
    {StockDirectoryMsg("s", 1), SystemEventMsg,
     AddOrderMsg("A", 1, 0, "B", 2, 1), AddOrderMsg("F", 0, 1, "S", 2, 1),
     ReductionMsg("E", 0, 1), OrderDeleteMsg(0), OrderReplaceMsg(1, 0, 1, 1, 2)}

\* In the order of the real lengths: a directory message and an order with attribution are
\* the longest, a deletion the shortest.
MCLengthOf ==
    [type \in {"S", "R", "A", "F", "E", "D", "U"} |->
        IF type \in {"R", "F"} THEN 3 ELSE IF type \in {"D", "S"} THEN 1 ELSE 2]
===============================================================================
