----------------------------- MODULE MCOrgChart -----------------------------
(* Small instances of OrgChart for TLC: the seed's administrator, one manager, *)
(* one employee and two people yet to be created.                            *)
EXTENDS OrgChart, TLC

CONSTANTS hr, manager, employee, new1, new2, personnel, engineering, sales

Seed == [u \in Users |->
           CASE u = hr       -> [role |-> "admin", dept |-> personnel]
             [] u = manager  -> [role |-> "manager", dept |-> engineering]
             [] u = employee -> [role |-> "employee", dept |-> engineering]
             [] OTHER        -> Absent]
Seats == [d \in Depts |-> CASE d = personnel   -> hr
                             [] d = engineering -> manager
                             [] OTHER           -> None]

\* Workers are interchangeable, and so are the people yet to be created.
Symmetry == Permutations(Workers) \cup Permutations({new1, new2})
=============================================================================
