------------------------------ MODULE IndexAbs ------------------------------
(***************************************************************************)
(* What the persisted index promises its readers: at any moment it holds   *)
(* the symbols of one version of each recorded file, all of them, and no   *)
(* others.  A file is forgotten before another version of it is learnt,    *)
(* and any number of files may change in one step.                         *)
(***************************************************************************)
CONSTANTS File, Version, NoRecord, Symbols

VARIABLES index, symbols

avars == <<index, symbols>>

SymbolsOf(i) == UNION {Symbols[<<f, i[f]>>] : f \in {g \in File : i[g] # NoRecord}}

Init ==
    /\ index = [f \in File |-> NoRecord]
    /\ symbols = {}

\* The recorded versions move to new, on the files in fs only.
Change(fs, new) ==
    /\ \A f \in File \ fs : new[f] = index[f]
    /\ index' = new
    /\ symbols' = SymbolsOf(new)

Forget(fs) ==
    Change(fs, [f \in File |-> IF f \in fs THEN NoRecord ELSE index[f]])

Learn(fs) ==
    /\ \A f \in fs : index[f] = NoRecord
    /\ \E versions \in [fs -> Version] :
         Change(fs, [f \in File |-> IF f \in fs THEN versions[f] ELSE index[f]])

Next == \E fs \in SUBSET File : Forget(fs) \/ Learn(fs)

Spec == Init /\ [][Next]_avars
=============================================================================
