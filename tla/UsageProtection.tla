--------------------------- MODULE UsageProtection ---------------------------
(***************************************************************************)
(* What the provider-config subsystem promises, without how it keeps it:   *)
(* users take up ProviderConfigs and leave them, what is in use becomes    *)
(* visible some time later, and a protected ProviderConfig that is asked   *)
(* to go does so only after it was found to have no visible user and has   *)
(* not changed since.  API calls, references, Secrets, counts, retries     *)
(* and the memory of the reconcilers are not part of the promise.          *)
(***************************************************************************)
CONSTANTS Users, Configs, None

VARIABLES
    config,   \* "absent", "unprotected", "protected" or "closing"
    using,    \* the ProviderConfig each user has taken up, or None
    visible,  \* the same as the protectors see it
    vacant    \* the ProviderConfigs found without a visible user

vars == <<config, using, visible, vacant>>

Init ==
    /\ config \in [Configs -> {"absent", "unprotected"}]
    /\ using = [u \in Users |-> None]
    /\ visible = using
    /\ vacant = {}

(* What was found about a ProviderConfig is void once it changes.          *)
Becomes(c, state) ==
    /\ config' = [config EXCEPT ![c] = state]
    /\ vacant' = vacant \ {c}
    /\ UNCHANGED <<using, visible>>

Appear(c) == config[c] = "absent" /\ Becomes(c, "unprotected")

Protect(c) == config[c] = "unprotected" /\ Becomes(c, "protected")

Change(c) == Becomes(c, config[c])

(* Nothing holds a ProviderConfig that is not protected yet.               *)
AskToGo(c) ==
    \/ config[c] = "unprotected" /\ Becomes(c, "absent")
    \/ config[c] = "protected" /\ Becomes(c, "closing")

TakeUp(u, c) ==
    /\ using' = [using EXCEPT ![u] = c]
    /\ UNCHANGED <<config, visible, vacant>>

Leave(u) ==
    /\ using' = [using EXCEPT ![u] = None]
    /\ UNCHANGED <<config, visible, vacant>>

BecomeVisible(u) ==
    /\ visible' = [visible EXCEPT ![u] = using[u]]
    /\ UNCHANGED <<config, using, vacant>>

FindVacant(c) ==
    /\ config[c] # "absent"
    /\ \A u \in Users : visible[u] # c
    /\ vacant' = vacant \cup {c}
    /\ UNCHANGED <<config, using, visible>>

Go(c) ==
    /\ config[c] = "closing"
    /\ c \in vacant
    /\ Becomes(c, "absent")

(* The protectors start anew and see everything.                           *)
Restart ==
    /\ visible' = using
    /\ vacant' = {}
    /\ UNCHANGED <<config, using>>

Next ==
    \/ \E c \in Configs : Appear(c) \/ Protect(c) \/ Change(c) \/ AskToGo(c)
                            \/ FindVacant(c) \/ Go(c)
    \/ \E u \in Users : Leave(u) \/ BecomeVisible(u) \/ \E c \in Configs : TakeUp(u, c)
    \/ Restart

Spec == Init /\ [][Next]_vars

=============================================================================
