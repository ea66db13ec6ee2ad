------------------------------- MODULE Reducer -------------------------------
(***************************************************************************)
(* src/shared/poc/reducer.cljc: the pure transition function that every    *)
(* host of the project shares.  An event is a record with a type and, for  *)
(* the types that read one, a value (the restored counter, the platform)   *)
(* or the effect it requests.  Titles, URIs and texts are left out of the  *)
(* effects; what a text carries of the model, the counter, is the effect's *)
(* value.  So is the key of a storage/write: it is always "counter", a     *)
(* requested write to another key being, to the hosts, one more type that  *)
(* they do not support.                                                    *)
(***************************************************************************)
EXTENDS Integers, Sequences, Contracts

initialState ==
  [counter |-> 0, platform |-> "nil", lifecycle |-> "nil", worker |-> "nil",
   permission |-> "nil", unsupported |-> "nil"]

Event(type)            == [type |-> type, value |-> "nil"]
EventWith(type, value) == [type |-> type, value |-> value]
Effect(type, value)    == [type |-> type, value |-> value]
Requesting(effect)     == [type |-> "platform/request-effect", effect |-> effect]

\* What a step returns: the new model and the effects for the host to execute.
Keep(state, effects)          == [model |-> state, effects |-> effects]
Set(state, key, value)        == Keep([state EXCEPT ![key] = value], <<>>)

CounterValue(state, type) ==
  CASE type = "counter/inc"   -> state.counter + 1
    [] type = "counter/dec"   -> state.counter - 1
    [] type = "counter/reset" -> 0

\* :counter/* change the counter and ask the host to store the new value.
CounterStep(state, type) ==
  LET counter == CounterValue(state, type)
  IN  Keep([state EXCEPT !.counter = counter], <<Effect("storage/write", counter)>>)

CounterEvents == {"counter/inc", "counter/dec", "counter/reset"}

\* Events that only emit an effect, and the effect they emit.
EmittedBy ==
  [type \in {"permission/request-notifications", "platform/notify-counter",
             "platform/copy-counter", "platform/vibrate", "platform/open-url",
             "platform/read-info"} |->
     CASE type = "permission/request-notifications" -> "permission/request"
       [] type = "platform/notify-counter"          -> "notification/show"
       [] type = "platform/copy-counter"            -> "platform/clipboard"
       [] type = "platform/open-url"                -> "platform/open-uri"
       [] OTHER                                     -> type]

LifecycleAfter ==
  [type \in {"lifecycle/create", "lifecycle/start", "lifecycle/resume",
             "lifecycle/pause", "lifecycle/stop"} |->
     CASE type = "lifecycle/create" -> "created"
       [] type = "lifecycle/start"  -> "started"
       [] type = "lifecycle/resume" -> "resumed"
       [] type = "lifecycle/pause"  -> "paused"
       [] type = "lifecycle/stop"   -> "stopped"]

\* A requested effect is emitted as the event has it, payload and all, if the
\* model's platform declares the capability that its type needs; otherwise the
\* type is noted in the model.
RequestEffect(state, effect) ==
  IF permittedEffect(state.platform, effect.type)
  THEN Keep(state, <<effect>>)
  ELSE Set(state, "unsupported", effect.type)

Step(state, event) ==
  LET type == event.type
  IN  CASE type \in CounterEvents              -> CounterStep(state, type)
        [] type = "storage/restore"            -> Set(state, "counter", event.value)
        [] type = "platform/info"              -> Set(state, "platform", event.value)
        [] type = "worker/completed"           -> Set(state, "worker", "completed")
        [] type = "permission/result-granted"  -> Set(state, "permission", "granted")
        [] type = "permission/result-denied"   -> Set(state, "permission", "denied")
        [] type = "platform/request-effect"    -> RequestEffect(state, event.effect)
        [] type \in DOMAIN EmittedBy           ->
             Keep(state, <<Effect(EmittedBy[type], state.counter)>>)
        [] type \in DOMAIN LifecycleAfter      ->
             Set(state, "lifecycle", LifecycleAfter[type])
        [] OTHER                               -> Keep(state, <<>>)
=============================================================================
