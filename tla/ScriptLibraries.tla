---------------------------- MODULE ScriptLibraries ----------------------------
(***************************************************************************)
(* The libraries of a script context.  A lazy one is a global proxy, whose *)
(* first use evaluates the library's file, which binds the global to the   *)
(* library itself: from then on the proxy is met only where a script has   *)
(* stored it.  validator is evaluated at once.  Scripts may bind these     *)
(* globals to values of their own.                                         *)
(***************************************************************************)
EXTENDS Naturals

CONSTANT Lazy      \* the libraries that are loaded when first used

VARIABLES
    binding,       \* what each global is bound to
    resolved,      \* the lazy libraries that a proxy has loaded
    stored,        \* those whose proxy a script has kept
    settings,      \* where a script's setting of each library went
    call           \* how the last call of a library got its arguments

libraryVars == <<binding, resolved, stored, settings, call>>

LibrariesInit ==
    /\ binding = [l \in Lazy \cup {"validator"} |->
                     IF l \in Lazy THEN "proxy" ELSE "library"]
    /\ resolved = {}
    /\ stored = {}
    /\ settings = [l \in Lazy |-> "unset"]
    /\ call = "none"

Holders == {"global", "stored"}

(* A script reaches a proxy by the global or by where it has kept it.      *)
IsProxy(l, holder) ==
    IF holder = "global" THEN binding[l] = "proxy" ELSE l \in stored

IsLibrary(l, holder) == holder = "global" /\ binding[l] = "library"

(* Mutant: what the file evaluates to is not bound to the global.          *)
MutantEvalLibrary(l) == UNCHANGED <<binding, settings>>

(* evalLibrary: the file binds the global, whatever it was bound to, to a  *)
(* library without settings.                                               *)
EvalLibrary(l) ==
    /\ binding' = [binding EXCEPT ![l] = "library"]
    /\ settings' = [settings EXCEPT ![l] = IF @ = "library" THEN "lost" ELSE @]

(* Mutant: the proxy does not remember that it has loaded the library.     *)
MutantResolveLazyTarget(l) == EvalLibrary(l) /\ resolved' = resolved \cup {l}

(* What each trap of the proxy does first.                                 *)
ResolveLazyTarget(l) ==
    IF l \in resolved THEN UNCHANGED <<binding, resolved, settings>>
    ELSE EvalLibrary(l) /\ resolved' = resolved \cup {l}

(* The get and the construct trap, which hand on what they are given.      *)
UseProxy(l, holder) ==
    /\ IsProxy(l, holder)
    /\ ResolveLazyTarget(l)
    /\ call' = "none"
    /\ UNCHANGED stored

(* The apply trap hands the list of arguments on as the only argument; a   *)
(* call of the library itself does not meet it.                            *)
CallLibrary(l, holder) ==
    /\ \/ IsProxy(l, holder) /\ ResolveLazyTarget(l)
       \/ IsLibrary(l, holder) /\ UNCHANGED <<binding, resolved, settings>>
    /\ call' = CASE ~IsProxy(l, holder) -> "direct"
                 [] holder = "stored"    -> "wrapped, stored"
                 [] l \notin resolved    -> "wrapped, first"
                 [] OTHER                -> "wrapped"
    /\ UNCHANGED stored

(* A property set on a proxy stays on the proxy's own target, from where   *)
(* the get trap never reads it.                                            *)
SetSetting(l, holder) ==
    /\ IsProxy(l, holder) \/ IsLibrary(l, holder)
    /\ settings' = [settings EXCEPT ![l] =
                       IF IsProxy(l, holder) THEN "target" ELSE "library"]
    /\ UNCHANGED <<binding, resolved, stored, call>>

StoreProxy(l) ==
    /\ binding[l] = "proxy"
    /\ stored' = stored \cup {l}
    /\ UNCHANGED <<binding, resolved, settings, call>>

Rebind(l) ==
    /\ binding' = [binding EXCEPT ![l] = "script"]
    /\ UNCHANGED <<resolved, stored, settings, call>>

UseLibraries ==
    \/ \E l \in Lazy :
           \/ StoreProxy(l)
           \/ \E holder \in Holders :
                  UseProxy(l, holder) \/ CallLibrary(l, holder) \/ SetSetting(l, holder)
    \/ \E l \in DOMAIN binding : Rebind(l)
-----------------------------------------------------------------------------
(* "so lazy obj can be called direct as a function": a call by the global  *)
(* gets its arguments as they were written, but for the very first use of  *)
(* the library in the context: the same line of a script means one thing   *)
(* to the first request and another to the next.                           *)
CallsDirectOnceUsed == call # "wrapped"

(* What a script sets on a library is what it reads there later: loading   *)
(* happens once, so that it never replaces a library that has settings.    *)
(* (One set before the library is loaded is lost: it is on "target".)      *)
SettingsOutliveLoading == \A l \in Lazy : settings[l] # "lost"

(* A script that binds a library's global to a value of its own keeps it,  *)
(* whatever other scripts use: only the first use of a proxy that was      *)
(* stored before takes the binding back.                                   *)
RebindingLost ==
    \E l \in Lazy : binding[l] = "script" /\ binding'[l] # "script"
BindingTakenOnlyByStoredProxy ==
    [][RebindingLost => \E l \in Lazy : /\ binding'[l] = "library"
                                        /\ l \in stored \ resolved
                                        /\ l \in resolved']_libraryVars
=============================================================================
