-------------------------------- MODULE MCTokens --------------------------------
(***************************************************************************)
(* Two tokens; the second may be labelled with the id of the first.        *)
(* An import clears the tokens, or brings the first once or twice.         *)
(***************************************************************************)
EXTENDS Tokens

CONSTANTS t1, t2, ci

MCToken == {t1, t2}
MCLabel == {ci, t1}
Row1 == [id |-> t1, label |-> ci, used |-> 1, revoked |-> FALSE]
MCDump == {<<>>, <<Row1>>, <<Row1, Row1>>}

================================================================================
