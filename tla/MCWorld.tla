------------------------------ MODULE MCWorld ------------------------------
(* Instances of World for TLC. *)
EXTENDS World

\* Every kind of call is refused; the notifications are lost whose loss is not
\* made good by the next one.
MCFaults ==
  ({"refused"} \X {Matching, Dispatching, Dispatched, Arrived})
  \cup {<<"user", Dispatching>>, <<"user", Completed>>, <<"chair", Completed>>,
        <<"unpaid", Arrived>>}
=============================================================================
