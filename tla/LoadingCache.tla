---------------------------- MODULE LoadingCache ----------------------------
(***************************************************************************)
(* What a cache in front of shared loads promises its callers, whatever it *)
(* is a cache of: a caller is told what is cached, or what the one load of *)
(* its key that was under way while it waited has come to, and all who     *)
(* wait for a load are told when it ends.  What is loaded is cached        *)
(* unless the load fails.  An entry may go at any time.                    *)
(***************************************************************************)
CONSTANTS
    Callers,
    Keys,
    Failure     \* what a load comes to that has no value

VARIABLES
    cached,     \* the entries of the cache: some keys -> their values
    loading,    \* the keys that are being loaded
    loaded,     \* what the loads that are over have come to: some keys -> values
    waits,      \* some callers -> the keys they wait for
    answers     \* some callers -> what they were told and have yet to return

cacheVars == <<cached, loading, loaded, waits, answers>>

With(f, x, y) == [z \in DOMAIN f \union {x} |-> IF z = x THEN y ELSE f[z]]
Less(f, S) == [z \in DOMAIN f \ S |-> f[z]]

Init ==
    /\ cached = [k \in {} |-> Failure]
    /\ loading = {}
    /\ loaded = [k \in {} |-> Failure]
    /\ waits = [c \in {} |-> Failure]
    /\ answers = [c \in {} |-> Failure]

Idle(c) == c \notin DOMAIN waits \union DOMAIN answers

\* All entries but those of S are what they were, or gone.
OthersMayGo(S) ==
    /\ DOMAIN cached' \subseteq DOMAIN cached \union S
    /\ \A k \in DOMAIN cached' \ S : cached'[k] = cached[k]

Hit(c, k) ==
    /\ Idle(c) /\ k \in DOMAIN cached
    /\ answers' = With(answers, c, cached[k])
    /\ UNCHANGED <<cached, loading, loaded, waits>>

\* A load starts unless there is one.
Join(c, k) ==
    /\ Idle(c)
    /\ waits' = With(waits, c, k)
    /\ loading' = IF k \in DOMAIN loaded THEN loading ELSE loading \union {k}
    /\ UNCHANGED <<cached, loaded, answers>>

\* A load has a value, which is in the cache, and may have made room for it.
Load(k) ==
    /\ k \in loading /\ k \in DOMAIN cached'
    /\ loading' = loading \ {k}
    /\ loaded' = With(loaded, k, cached'[k])
    /\ OthersMayGo({k})
    /\ UNCHANGED <<waits, answers>>

Fail(k) ==
    /\ k \in loading
    /\ loading' = loading \ {k}
    /\ loaded' = With(loaded, k, Failure)
    /\ UNCHANGED <<cached, waits, answers>>

End(k) ==
    /\ k \in DOMAIN loaded
    /\ loaded' = Less(loaded, {k})
    /\ LET told == {c \in DOMAIN waits : waits[c] = k}
       IN  /\ waits' = Less(waits, told)
           /\ answers' = [c \in DOMAIN answers \union told |->
                            IF c \in told THEN loaded[k] ELSE answers[c]]
    /\ UNCHANGED <<cached, loading>>

Leave(c) ==
    /\ c \in DOMAIN waits
    /\ waits' = Less(waits, {c})
    /\ UNCHANGED <<cached, loading, loaded, answers>>

Return(c) ==
    /\ c \in DOMAIN answers
    /\ answers' = Less(answers, {c})
    /\ UNCHANGED <<cached, loading, loaded, waits>>

Forget == UNCHANGED <<loading, loaded, waits, answers>> /\ OthersMayGo({})

Next ==
    \/ Forget
    \/ \E k \in loading : Load(k) \/ Fail(k)
    \/ \E k \in DOMAIN loaded : End(k)
    \/ \E c \in DOMAIN waits : Leave(c)
    \/ \E c \in DOMAIN answers : Return(c)
    \/ \E c \in Callers, k \in Keys : Hit(c, k) \/ Join(c, k)

Spec == Init /\ [][Next]_cacheVars
=============================================================================
