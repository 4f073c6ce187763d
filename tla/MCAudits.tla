------------------------------ MODULE MCAudits ------------------------------
EXTENDS Audits

CONSTANTS r1, r2, r3

MCLegs == {<<C(0, 0), C(4, -1)>>, <<C(0, 0), C(0, 3)>>, <<C(0, 0), C(-3, 4)>>}

\* r1 and r2 are of one chair, r3 is of another of the same model.
MCSale == (r1 :> 1) @@ (r2 :> 2) @@ (r3 :> 3)
MCGroups == {{r1, r2}, {r3}, {r1, r2, r3}}
=============================================================================
