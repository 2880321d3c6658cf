-------------------------------- MODULE Chat --------------------------------
(***************************************************************************)
(* One dialog, put together: what one participant has read of it           *)
(* (ChatReads), and what its messages consist of, the pins on them, and    *)
(* who may write (ChatMessages).  Both are about the same uuids, of        *)
(* different columns: the first has the times of the messages and who can  *)
(* see them, which come and go there as they like.                         *)
(***************************************************************************)
EXTENDS ChatReads

CONSTANTS Company, Applicant, Item \* see ChatMessages

VARIABLES content, pin, file, applied, writing, contended, died

contentVars == <<content, pin, file, applied, writing, contended, died>>

Contents ==
  INSTANCE ChatMessages
    WITH message <- content, handler <- writing, raced <- contended, interrupted <- died

ASSUME UserAssumption == Company # Applicant
-----------------------------------------------------------------------------
ChatInit == Init /\ Contents!Init

ReadStep == Next /\ UNCHANGED contentVars

ContentStep == Contents!Next /\ UNCHANGED vars

ChatSpec == ChatInit /\ [][ReadStep \/ ContentStep]_<<vars, contentVars>>
-----------------------------------------------------------------------------
\* A message is never left without what it shows (ChatMessages).
MessageStands == Contents!MessageStands

\* Who has applied waits for the company to write (ChatMessages).
ApplicantWaits == Contents!ApplicantWaits
=============================================================================
