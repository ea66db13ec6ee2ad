------------------------------ MODULE Contracts ------------------------------
(***************************************************************************)
(* src/shared/poc/contracts.cljc: the portable vocabulary of effects and   *)
(* of the capabilities that the platform adapters declare.                 *)
(***************************************************************************)

Capabilities == {"clipboard", "persistence", "open-uri", "notifications", "vibration"}

EffectTypes == {"platform/clipboard", "storage/write", "platform/open-uri",
                "notification/show", "platform/vibrate", "permission/request",
                "platform/read-info"}

\* A platform that the table does not know (nil before :platform/info) has none.
capabilities(platform) ==
  CASE platform = "android" -> Capabilities
    [] platform = "linux"   -> {"clipboard", "persistence", "open-uri"}
    [] platform = "cli"     -> {"persistence", "open-uri"}
    [] OTHER                -> {}

\* "nil" for an effect that needs no capability.
effectCapability ==
  [type \in EffectTypes |->
     CASE type = "platform/clipboard"  -> "clipboard"
       [] type = "storage/write"       -> "persistence"
       [] type = "platform/open-uri"   -> "open-uri"
       [] type = "platform/vibrate"    -> "vibration"
       [] type = "platform/read-info"  -> "nil"
       [] OTHER                        -> "notifications"]

permittedEffect(platform, type) ==
  effectCapability[type] \in capabilities(platform) \union {"nil"}
=============================================================================
