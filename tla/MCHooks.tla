------------------------------ MODULE MCHooks ------------------------------
(* The machines HooksSafety looks at.                                       *)
EXTENDS Hooks, TLC

Once(what) == [e \in Events |-> {{what}}]
Old(table, what) == [e \in Events |-> IF e \in table THEN {{what}} ELSE {}]
Plugged == [Bare EXCEPT !.manifest = "ours", !.hooks = Whole, !.skill = "ours"]
Marks(mark, s) == <<[mark |-> "no", says |-> "other"], [mark |-> mark, says |-> "alias"]>>

MCStories ==
  {"claude" :> d : d \in {Bare,
     [Bare EXCEPT !.settings = Old(Required, "old")],
     [Bare EXCEPT !.settings = [Once("now") EXCEPT !["tool"] = {{"now", "mine"}}]],
     [Plugged EXCEPT !.hooks = [Whole EXCEPT !["more"] = None], !.relics = {"mcp", "skill"}]}}
  \union {"codex" :> d : d \in {Bare,
     [Bare EXCEPT !.settings = Once("now"), !.relics = {"mcp", "skill"}]}}
  \union {"cursor" :> d : d \in {Bare,
     [Bare EXCEPT !.settings = Old(Required, "now"), !.relics = {"mcp", "mine"}]}}
  \union {"copilot" :> Bare, "qwen" :> Bare, "opencode" :> Bare,
          "opencode" :> [Bare EXCEPT !.script = "theirs"]}
  \union {"bash" :> [Bare EXCEPT !.rc = rc] : rc \in {<<>>, Marks("old", "bash")}}
  \union {"zsh" :> Bare, "claude" :> Bare @@ "copilot" :> Bare}

=============================================================================
