--------------------------- MODULE MCFileExtraction ---------------------------
(* Small instances of FileExtraction.                                        *)
EXTENDS FileExtraction

\* Two extractions that share two names and publish them in opposite orders;
\* the longer one may have two members to take back.
MCMembersOf == [x |-> <<"fruit", "index", "notes">>, y |-> <<"notes", "fruit">>]

MCExtractions == DOMAIN MCMembersOf
=============================================================================
