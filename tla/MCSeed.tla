------------------------------- MODULE MCSeed -------------------------------
EXTENDS Seed

CONSTANT guest

MCNumbers == 1..4
MCRequests == {<<guest, "sick", 5>>, <<"employee1", "annual", 12>>}

\* An older version: garbled names, a role with a typing error, an
\* administrator of its own, a second row of a leave type.
Garbage ==
    [Empty EXCEPT
       !.roles = {"admin", LegacyRole, NoneRole},
       !.departments = {Garbled("sales"), Garbled("engineering")},
       !.types = {[name |-> Garbled("annual"), code |-> "other", copy |-> 0],
                  [name |-> Today("sick"), code |-> "other", copy |-> 0],
                  [name |-> Today("sick"), code |-> "other", copy |-> 1]},
       !.users = [@ EXCEPT
          !["employee1"] = [role |-> LegacyRole, dept |-> Garbled("sales"), remain |-> AnnualDays],
          ![guest] = [role |-> LegacyRole, dept |-> Garbled("engineering"), remain |-> AnnualDays],
          ![LegacyAdmin] = [role |-> "admin", dept |-> Garbled("engineering"), remain |-> AnnualDays]]]

\* The old administrator heard of something, signed something, or leads.
Heard == [Garbage EXCEPT !.notes = {<<guest, LegacyAdmin, "sheet">>}]
Signed == [Garbage EXCEPT !.sheets = [@ EXCEPT ![guest] = [status |-> "APPROVED", approver |-> LegacyAdmin]],
                          !.corrections = {<<guest, LegacyAdmin>>}, !.oldName = FALSE]
Led == [Garbage EXCEPT
          !.departments = @ \cup {Today("engineering")},
          !.seat = [@ EXCEPT !["engineering"] = LegacyAdmin],
          !.users = [@ EXCEPT !["employee1"].dept = Today("engineering")]]

MCInherited == {Garbage, Heard, Signed, Led}
=============================================================================
