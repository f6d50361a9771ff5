------------------------------ MODULE HostMode ------------------------------
(***************************************************************************)
(* Host mode of the desktop app: its relay published through a tunnel      *)
(* process (src-tauri/src/host.rs), the panel that starts and stops it and *)
(* closes registration (components/HostModePanel.tsx,                      *)
(* services/hostMode.ts, server/routes/host.py). Every start and stop has  *)
(* a number, the generation; the run a start spawned and its process are   *)
(* known by it.                                                            *)
(***************************************************************************)
EXTENDS Naturals

CONSTANTS
    MaxGenerations,     \* bound on starts and stops
    MaxRestarts,        \* MAX_RESTARTS
    MaxMounts           \* bound on how often the panel is opened

Generations == 1..MaxGenerations
Steps == {"none", "new", "binary", "spawn", "url", "verify", "watch", "ended"}

VARIABLES
    generation, wanted,     \* the counter; the last command was a start
    run, restarts,          \* each run: its step, its restarts
    live, slot,             \* processes that live; whose is in HostManager.child, or 0
    status,                 \* <<state, generation>>
    panel, mounts,          \* 0: closed; else 1 + the generation it applied the policy for
    registration,
    overtaken               \* history: a stop or start while a run waited for its address,
                            \* or a start while another run was not over

hostVars == <<generation, wanted, run, restarts, live, slot, status>>
panelVars == <<panel, mounts, registration>>
hostModeVars == <<hostVars, panelVars, overtaken>>

Init ==
    /\ generation = 0 /\ wanted = FALSE
    /\ run = [g \in Generations |-> "none"] /\ restarts = [g \in Generations |-> 0]
    /\ live = {} /\ slot = 0 /\ status = <<"stopped", 0>>
    /\ panel = 0 /\ mounts = 0 /\ registration \in {"open", "invite"} /\ overtaken = FALSE

Over(g) == run[g] \in {"none", "ended"}
Goes(g, step) == run' = [run EXCEPT ![g] = step]
Current(g) == generation = g
Ends(g) == Goes(g, "ended") /\ UNCHANGED status
Fails(g) ==             \* the error is shown unless another command came
    /\ Goes(g, "ended")
    /\ status' = IF Current(g) THEN <<"error", g>> ELSE status

-----------------------------------------------------------------------------
(* The commands: the panel, or the app when it starts (autostart).          *)

Start ==
    /\ generation < MaxGenerations /\ generation' = generation + 1 /\ wanted' = TRUE
    /\ generation = 0 \/ (panel # 0 /\ status[1] \in {"stopped", "error"})
    /\ run' = [run EXCEPT ![generation'] = "new"]
    /\ overtaken' = (overtaken \/ \E g \in Generations : ~Over(g))
    /\ UNCHANGED <<restarts, live, slot, status, panelVars>>

(* The process in the slot is killed. Mutant: only the counter moves.       *)
Stop_KeepsChild ==
    /\ panel # 0 /\ status[1] \notin {"stopped", "error"}
    /\ generation < MaxGenerations /\ generation' = generation + 1 /\ wanted' = FALSE
    /\ status' = <<"stopped", 0>> /\ panel' = 1
    /\ overtaken' = (overtaken \/ \E g \in Generations : run[g] = "url")
    /\ UNCHANGED <<run, restarts, live, slot, mounts, registration>>
Stop ==
    /\ panel # 0 /\ status[1] \notin {"stopped", "error"}
    /\ generation < MaxGenerations /\ generation' = generation + 1 /\ wanted' = FALSE
    /\ live' = live \ {slot} /\ slot' = 0
    /\ status' = <<"stopped", 0>> /\ panel' = 1
    /\ overtaken' = (overtaken \/ \E g \in Generations : run[g] = "url")
    /\ UNCHANGED <<run, restarts, mounts, registration>>

-----------------------------------------------------------------------------
(* HostManager.run, between its awaits.                                     *)

Begin(g) ==
    /\ run[g] = "new" /\ Goes(g, "binary") /\ status' = <<"downloading", g>>
    /\ UNCHANGED <<generation, wanted, restarts, live, slot, panelVars, overtaken>>
HasBinary(g) ==
    /\ run[g] = "binary" /\ Goes(g, IF Current(g) THEN "spawn" ELSE "ended")
    /\ UNCHANGED <<generation, wanted, restarts, live, slot, status, panelVars, overtaken>>
NoBinary(g) ==
    /\ run[g] = "binary" /\ Fails(g)
    /\ UNCHANGED <<generation, wanted, restarts, live, slot, panelVars, overtaken>>

Spawn(g) ==
    /\ run[g] = "spawn"
    /\ IF Current(g)
       THEN Goes(g, "url") /\ status' = <<"starting", g>> /\ live' = live \cup {g}
       ELSE Ends(g) /\ UNCHANGED live
    /\ UNCHANGED <<generation, wanted, restarts, slot, panelVars, overtaken>>

NoAddress(g) ==         \* 45 s passed, or the process ended
    /\ run[g] = "url" /\ Fails(g) /\ live' = live \ {g}
    /\ UNCHANGED <<generation, wanted, restarts, slot, panelVars, overtaken>>

(* Stored without a look at the generation; what was there is dropped, and  *)
(* a process that is dropped is killed.                                     *)
HasAddress(g) ==
    /\ run[g] = "url" /\ Goes(g, "verify") /\ slot' = g /\ live' = live \ ({slot} \ {g})
    /\ UNCHANGED <<generation, wanted, restarts, status, panelVars, overtaken>>

NotHealthy(g) ==
    /\ run[g] = "verify" /\ Fails(g) /\ live' = live \ {slot} /\ slot' = 0
    /\ UNCHANGED <<generation, wanted, restarts, panelVars, overtaken>>
Healthy(g) ==
    /\ run[g] = "verify" /\ g \in live
    /\ IF Current(g) THEN Goes(g, "watch") /\ status' = <<"ready", g>> ELSE Ends(g)
    /\ UNCHANGED <<generation, wanted, restarts, live, slot, panelVars, overtaken>>

(* Every two seconds: an empty slot ends the run; a process that ended is   *)
(* taken out and started again, MaxRestarts times.                          *)
WatchEmpty(g) ==
    /\ run[g] = "watch" /\ slot = 0 /\ Ends(g)
    /\ UNCHANGED <<generation, wanted, restarts, live, slot, panelVars, overtaken>>
WatchExited(g) ==
    /\ run[g] = "watch" /\ slot # 0 /\ slot \notin live /\ slot' = 0
    /\ IF ~Current(g) THEN Ends(g) /\ UNCHANGED restarts
       ELSE IF restarts[g] = MaxRestarts THEN Fails(g) /\ UNCHANGED restarts
       ELSE /\ restarts' = [restarts EXCEPT ![g] = @ + 1]
            /\ Goes(g, "spawn") /\ status' = <<"restarting", g>>
    /\ UNCHANGED <<generation, wanted, live, panelVars, overtaken>>

ProcessDies(g) ==
    /\ g \in live /\ live' = live \ {g}
    /\ UNCHANGED <<generation, wanted, run, restarts, slot, status, panelVars, overtaken>>

-----------------------------------------------------------------------------
(* The panel closes registration on the first "ready" it sees of an         *)
(* address; it does not try twice. The owner may open it again.             *)

Mount ==
    /\ panel = 0 /\ mounts < MaxMounts /\ mounts' = mounts + 1 /\ panel' = 1
    /\ UNCHANGED <<hostVars, registration, overtaken>>
Unmount ==
    /\ panel # 0 /\ panel' = 0 /\ UNCHANGED <<hostVars, mounts, registration, overtaken>>
Published ==
    /\ panel # 0 /\ status[1] = "ready" /\ panel # 1 + status[2]
    /\ panel' = 1 + status[2] /\ registration' \in {"invite", registration}
    /\ UNCHANGED <<hostVars, mounts, overtaken>>
ToggleInvite ==
    /\ panel # 0 /\ registration' = IF registration = "open" THEN "invite" ELSE "open"
    /\ UNCHANGED <<hostVars, panel, mounts, overtaken>>

-----------------------------------------------------------------------------
Next ==
    \/ Start \/ Stop \/ Mount \/ Unmount \/ Published \/ ToggleInvite
    \/ \E g \in Generations :
        \/ Begin(g) \/ HasBinary(g) \/ NoBinary(g) \/ Spawn(g) \/ NoAddress(g) \/ HasAddress(g)
        \/ NotHealthy(g) \/ Healthy(g) \/ WatchEmpty(g) \/ WatchExited(g) \/ ProcessDies(g)

Spec == Init /\ [][Next]_hostModeVars

-----------------------------------------------------------------------------
(* A tunnel process belongs to a run that is under way and that nobody      *)
(* called off: none goes on publishing the relay behind the panel's back,   *)
(* if no command overtook a run.                                            *)
TunnelsAreRun == ~overtaken => \A g \in live : ~Over(g) /\ Current(g)

(* host.rs stop(): the new generation "cancels the restart and the races    *)
(* with an old start": once the runs are over, after a stop no tunnel       *)
(* lives. FALSE of the code: see HasAddress and Healthy.                    *)
StopEndsTunnel == ~wanted /\ (\A g \in Generations : Over(g)) => live = {}

-----------------------------------------------------------------------------
(* What it follows from, as long as nothing was overtaken: one run is under *)
(* way at most, a process belongs to one between its start and its end, and *)
(* once its address is there it is in the slot, where a stop finds it.      *)
HostInv ==
    /\ generation \in Nat /\ live \subseteq Generations
    /\ run \in [Generations -> Steps] /\ overtaken \in BOOLEAN
    /\ ~overtaken =>
          /\ \A g, h \in Generations : ~Over(g) /\ ~Over(h) => g = h
          /\ \A g \in live :
                /\ Current(g) /\ run[g] \in {"url", "verify", "watch"}
                /\ run[g] # "url" => slot = g
=============================================================================
