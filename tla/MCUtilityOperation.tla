-------------------------- MODULE MCUtilityOperation --------------------------
(* Two files, one of them in a directory.                                    *)
EXTENDS UtilityOperation

B == <<"b">>
D == <<"d">>
DA == <<"d", "a">>
MCPath == {B, D, DA}

MCDeviceTrees ==
    {t \in [MCPath -> {"none", "dir", "old", "new"}] :
        /\ t[B] # "dir" /\ t[D] # "old" /\ t[DA] # "dir"
        /\ t[DA] # "none" => t[D] = "dir"}
MCLocalTrees == {t \in MCDeviceTrees : \A p \in MCPath : t[p] # "old"}

===============================================================================
