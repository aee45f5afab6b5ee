--------------------------- MODULE MCScopeEditor ---------------------------
(* Two scopes and one key besides the blank one; a plain string and a JSON *)
(* variable, which opens the dialog; a text that JSON rejects and a number *)
(* that becomes null on its way; a draft whose only value is null.         *)
EXTENDS ScopeEditor

MCScope == {"global", "service:a"}
MCService == [s \in MCScope |-> IF s = "global" THEN "" ELSE "a"]
MCBefore == [s \in MCScope |-> IF s = "global"
                 THEN <<(1 :> [type |-> "bool", value |-> "false"]), <<>>>> ELSE <<>>]
MCDrafts == [s \in MCScope |-> IF s = "global" THEN <<>>
                ELSE <<(1 :> [type |-> "float", value |-> Null])>>]
MCPublished == {(1 :> [type |-> "json", value |-> "1"])}
=============================================================================
