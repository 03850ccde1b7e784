--------------------------- MODULE RemoteCommands ---------------------------
(***************************************************************************)
(* The leaf's side of commands and configuration (remote_protocol.cpp,     *)
(* handle_command_ and handle_config_): reassembly, the duplicate checks,  *)
(* what is applied, and the ack.                                           *)
(***************************************************************************)
EXTENDS BridgeCommands

CONSTANTS Known,     \* the entities the leaf has registered
          MaxBoots   \* bound: restarts of the leaf

ASSUME KnownAssumption == Known \subseteq Entities /\ MaxBoots \in Nat

ConfigKinds == {"REBOOT", "HEARTBEAT_INTERVAL", "FORCE_REDISCOVER", "SET_PARENT_MAC", "RELAY",
                "UNSUPPORTED", "BAD_LENGTH", "BAD_VALUE"}

ASSUME KindAssumption == Kind \in [Configs -> ConfigKinds]

VARIABLES
  rDone,     \* last_completed_command_message_tx_base of each entity
  rTable,    \* pending_command_assemblies_ and their reserved bytes
  rLast,     \* last_config_*: valid, tx, result
  boots,     \* restarts so far
  applied,   \* history: payloads given to command_fn_, with the boot they came in
  configured \* history: configs carried out

rCommands == <<rDone, rTable, rLast, boots, applied, configured>>

NoConfig == [valid |-> FALSE, tx |-> 0, result |-> "OK"]

RemoteCommandsInit ==
  /\ rDone = [e \in Entities |-> 0]
  /\ rTable = EmptyTable
  /\ rLast = NoConfig
  /\ boots = 0
  /\ applied = << >>
  /\ configured = {}

\* send_command_ack_, send_config_ack_; the radio may refuse it.
AckFrame(of, result, ref) ==
  Frame("ACK", rKey, rTx, [of |-> of, result |-> result, ref |-> ref])

SendAck(of, result, ref) ==
  /\ up' = Put(up, AckFrame(of, result, ref))
  /\ rTx' = rTx + 1

\* What clear_session_state_ forgets here; rDone survives it.
ClearCommands == rTable' = EmptyTable /\ rLast' = NoConfig

-----------------------------------------------------------------------------
\* handle_command_ once the frame is authentic: a message not newer than the
\* last one completed for the entity is acked again if it is that one, and
\* ignored if it is older.  The frame counter is not checked.
CommandFragment(frame) ==
  LET body == frame.body
      base == MessageTxBase(frame.tx, body.index)
      e    == body.entity
  IN
  \/ /\ e \notin Known
     /\ SendAck("COMMAND", "INVALID", base)
     /\ UNCHANGED <<rSeen, rDone, rTable, applied>>
  \/ /\ e \in Known /\ base = rDone[e]
     /\ SendAck("COMMAND", "OK", base)
     /\ UNCHANGED <<rSeen, rDone, rTable, applied>>
  \/ /\ e \in Known /\ base # rDone[e] /\ ~CounterIsNewer(base, rDone[e])
     /\ UNCHANGED <<rSeen, rTx, up, rDone, rTable, applied>>
  \/ /\ e \in Known /\ CounterIsNewer(base, rDone[e])
     /\ \E r \in {Receive(rTable, [entity |-> e, index |-> body.index, count |-> body.count,
                                   base |-> base, flag |-> FALSE, msg |-> body.msg], FALSE)} :
          /\ rTable' = r.table
          /\ rSeen' = IF r.stored THEN LaterCounter(rSeen, frame.tx) ELSE rSeen
          /\ IF r.done
               THEN /\ rDone' = [rDone EXCEPT ![e] = base]
                    /\ applied' = Append(applied, [boot |-> boots, entity |-> e, payload |-> r.whole])
                    /\ SendAck("COMMAND", "OK", base)
               ELSE UNCHANGED <<rDone, applied, rTx, up>>

HandleCommand ==
  /\ DownIs("COMMAND")
  /\ down' = Tail(down)
  /\ IF rKey # 0 /\ Head(down).key = rKey
       THEN CommandFragment(Head(down))
       ELSE UNCHANGED <<rSeen, rTx, up, rDone, rTable, applied>>
  /\ UNCHANGED <<bSession, rKey, rNormal, keys, beats, hits, bQueues, rLast, boots, configured>>

\* prune_pending_command_fragments_
PruneCommand(e) ==
  /\ Due
  /\ rTable.asm[e] # NoEntry /\ rTable.asm[e].active
  /\ rTable' = Expired(rTable, e)
  /\ UNCHANGED <<pairVars, bQueues, rDone, rLast, boots, applied, configured>>

-----------------------------------------------------------------------------
ConfigResult(f) ==
  CASE Kind[f] = "BAD_LENGTH"  -> "INVALID"
    [] ~rNormal                -> "BUSY"
    [] Kind[f] = "UNSUPPORTED" -> "UNSUPPORTED"
    [] Kind[f] = "BAD_VALUE"   -> "INVALID"
    [] OTHER                   -> "OK"

\* The result is remembered before its ack is sent; a config whose ack the radio
\* does not take is not carried out.
CarriedOut(f) == ConfigResult(f) = "OK" /\ Room(up)

Restarted ==
  /\ LeaveSession /\ ClearCommands
  /\ rTx' = 1
  /\ rDone' = [e \in Entities |-> 0]
  /\ boots' = boots + 1

\* What a config does to the session: a restart, start_config_full_rediscovery_,
\* start_route_recovery_cycle_, or nothing.
ConfigEffect(f, tx) ==
  \/ /\ CarriedOut(f) /\ Kind[f] = "REBOOT"
     /\ Restarted
  \/ /\ CarriedOut(f) /\ Kind[f] = "FORCE_REDISCOVER"
     /\ LeaveSession /\ ClearCommands
     /\ rTx' = rTx + 1
     /\ UNCHANGED <<rDone, boots>>
  \/ /\ ~(CarriedOut(f) /\ Kind[f] \in {"REBOOT", "FORCE_REDISCOVER"})
     /\ rNormal' = (rNormal /\ ~(CarriedOut(f) /\ Kind[f] = "SET_PARENT_MAC"))
     /\ rLast' = [valid |-> TRUE, tx |-> tx, result |-> ConfigResult(f)]
     /\ rSeen' = tx
     /\ rTx' = rTx + 1
     /\ UNCHANGED <<rKey, rDone, rTable, boots>>

\* handle_config_: a repetition of the last config is answered from memory, any
\* other frame must have a newer counter.
HandleConfig ==
  /\ DownIs("CONFIG")
  /\ down' = Tail(down)
  /\ LET frame == Head(down)
         f     == frame.body.cfg
         valid == rKey # 0 /\ frame.key = rKey
         again == rLast.valid /\ rLast.tx = frame.tx
     IN
     \/ /\ valid /\ again
        /\ SendAck("CONFIG", rLast.result, frame.tx)
        /\ UNCHANGED <<rKey, rNormal, rSeen, rDone, rTable, rLast, boots, configured>>
     \/ /\ valid /\ ~again /\ CounterIsNewer(frame.tx, rSeen)
        /\ Kind[f] = "REBOOT" => boots < MaxBoots
        /\ up' = Put(up, AckFrame("CONFIG", ConfigResult(f), frame.tx))
        /\ configured' = IF CarriedOut(f) THEN configured \cup {f} ELSE configured
        /\ ConfigEffect(f, frame.tx)
     \/ /\ ~valid \/ (~again /\ ~CounterIsNewer(frame.tx, rSeen))
        /\ UNCHANGED <<rSession, up, rDone, rTable, rLast, boots, configured>>
  /\ UNCHANGED <<bSession, keys, beats, hits, bQueues, applied>>

-----------------------------------------------------------------------------
\* handle_deauth_ leads to a new join, whatever request it answers.
HandleDeauth ==
  /\ DownIs("DEAUTH")
  /\ down' = Tail(down)
  /\ LeaveSession /\ ClearCommands
  /\ UNCHANGED <<bSession, rTx, keys, beats, up, hits, bQueues, rDone, boots, applied, configured>>

\* The leaf loses its session by itself: a stall, a join it repeats.
GiveUp ==
  /\ "give up" \in sc.faults /\ rKey # 0 /\ keys < sc.sessions
  /\ LeaveSession /\ ClearCommands
  /\ UNCHANGED <<bSession, rTx, keys, beats, path, bQueues, rDone, boots, applied, configured>>

RemoteRestart ==
  /\ "remote restart" \in sc.faults /\ boots < MaxBoots /\ keys < sc.sessions
  /\ Restarted
  /\ UNCHANGED <<bSession, keys, beats, path, bQueues, applied, configured>>

\* start_route_recovery_cycle_ on a weak link; the session is kept.
RouteRecovery ==
  /\ "recovery" \in sc.faults /\ rKey # 0 /\ rNormal /\ beats < sc.beats
  /\ rNormal' = FALSE
  /\ beats' = beats + 1
  /\ UNCHANGED <<bSession, rKey, rTx, rSeen, keys, path, bQueues, rCommands>>

\* adopt_best_parent_candidate_(true), then a heartbeat.
RouteResumed ==
  /\ rKey # 0 /\ ~rNormal
  /\ rNormal' = TRUE
  /\ up' = Put(up, Frame("HEARTBEAT", rKey, rTx, Nothing))
  /\ rTx' = rTx + 1
  /\ UNCHANGED <<bSession, rKey, rSeen, keys, beats, down, hits, bQueues, rCommands>>

RemoteCommandSteps ==
  \/ HandleCommand \/ HandleConfig \/ HandleDeauth
  \/ \E e \in Entities : PruneCommand(e)
  \/ GiveUp \/ RemoteRestart \/ RouteRecovery \/ RouteResumed

RemoteCommandsTypeOK ==
  /\ rDone \in [Entities -> Nat]
  /\ rTable \in TableType(Commands)
  /\ rLast \in [valid : BOOLEAN, tx : Nat, result : {"OK", "BUSY", "INVALID", "UNSUPPORTED"}]
  /\ boots \in 0 .. MaxBoots
  /\ configured \subseteq Configs
=============================================================================
