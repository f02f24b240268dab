--------------------------- MODULE MCLimitProfiles ---------------------------
(* A small instance of LimitProfiles.                                      *)
EXTENDS LimitProfiles, TLC

\* One resource, and profiles that only exist or not.
MCFewCatalogs ==
  {[profiles |-> NoProfiles, resources |-> {"chunks"}],
   [profiles |-> "q" :> NoOverrides, resources |-> {"chunks"}]}
=============================================================================
