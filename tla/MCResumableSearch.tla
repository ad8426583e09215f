------------------------- MODULE MCResumableSearch -------------------------
(* Model values for ResumableSearch. *)
EXTENDS ResumableSearch

Prism(archive, search) ==
  [engine |-> "prism", flags |-> [archive |-> archive, search |-> search]]
Primordia(broad, progress) ==
  [engine |-> "primordia", flags |-> [broad |-> broad, progress |-> progress]]
Stratograph(research, diverse) ==
  [engine |-> "stratograph",
   flags |-> [research |-> research, diverse |-> diverse]]
Topograph(legacy, archive, training) ==
  [engine |-> "topograph",
   flags |-> [legacy |-> legacy, archive |-> archive, training |-> training]]

AllPolicies ==
  {Prism(FALSE, FALSE), Prism(TRUE, FALSE), Prism(TRUE, TRUE),
   Primordia(FALSE, FALSE), Primordia(TRUE, FALSE), Primordia(TRUE, TRUE),
   Stratograph(FALSE, FALSE), Stratograph(TRUE, TRUE),
   Topograph(TRUE, FALSE, FALSE), Topograph(FALSE, FALSE, TRUE),
   Topograph(FALSE, TRUE, TRUE)}

FrontierPrism == {Prism(TRUE, TRUE)}

ThreeOutcomes == {[q |-> Failed, more |-> FALSE], [q |-> 1, more |-> FALSE],
                  [q |-> 2, more |-> TRUE]}
=============================================================================
