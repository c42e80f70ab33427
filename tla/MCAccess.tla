------------------------------ MODULE MCAccess ------------------------------
(* A small instance of Access for TLC: the organisation of MCOrgChart.       *)
EXTENDS Access, TLC

CONSTANTS hr, manager, employee, newcomer, personnel, engineering

Seed == [u \in Users |->
           CASE u = hr       -> [role |-> "admin", dept |-> personnel]
             [] u = manager  -> [role |-> "manager", dept |-> engineering]
             [] u = employee -> [role |-> "employee", dept |-> engineering]
             [] OTHER        -> Absent]
Seats == [d \in Depts |-> IF d = personnel THEN hr ELSE manager]
=============================================================================
