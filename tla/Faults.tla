------------------------------- MODULE Faults -------------------------------
(***************************************************************************)
(* Three faults keep handlers of the code from their work altogether.  In   *)
(* some behaviours they are there, in the others they are repaired, so that *)
(* what lies behind them is checked as well.                                *)
(***************************************************************************)
VARIABLES repaired  \* no step changes it

\* A lean() result has the methods of a document: it has not.
LeanHasToJSON == repaired

\* request.user has userId: JwtStrategy returns id.
TokenHasUserId == repaired

\* A new certificate template is given the required createdBy: it is not.
CreatorIsGiven == repaired
=============================================================================
