---------------------------- MODULE AgentServices ----------------------------
(***************************************************************************)
(* The parts of the agent that read the chain, wait for it and report on   *)
(* it.  Each runs in a program of its own: a program that reads protocols, *)
(* one that submits a transaction and waits for it, the HTTP server, and   *)
(* the per-block loop as far as it is observed.  They share the chain only.*)
(***************************************************************************)
EXTENDS ProtocolReaders, PrivateRelay, RateRequests, Observability

VARIABLE program

vars == <<program, head, passVars, clientVars, requestVars, obsVars>>

Init ==
    /\ program \in {"readers", "client", "server", "loop"}
    /\ ReaderInit /\ RequestInit /\ ObsInit
    /\ ClientInit /\ phase = IF program = "client" THEN "start" ELSE "done"
    /\ program # "readers" => readers = CHOOSE listed \in Registered : TRUE
    /\ program # "client" => keysDiffer /\ ~dry_run /\ max_block_offset = Offset

Running(name) == program = name /\ UNCHANGED program

readersRun == Running("readers") /\ ReaderNext /\ UNCHANGED <<clientVars, requestVars, obsVars>>
clientRuns == Running("client") /\ clientStep /\ UNCHANGED <<passVars, requestVars, obsVars>>
chainGrows == Running("client") /\ blockMined /\ UNCHANGED <<passVars, requestVars, obsVars>>
serverRuns == Running("server") /\ RequestNext /\ UNCHANGED <<head, passVars, clientVars, obsVars>>
loopRuns == Running("loop") /\ ObsNext /\ UNCHANGED <<head, passVars, clientVars, requestVars>>

Next == readersRun \/ clientRuns \/ chainGrows \/ serverRuns \/ loopRuns

\* The client's process goes on; nothing is asked of the chain.
Spec == Init /\ [][Next]_vars /\ WF_vars(clientRuns)

TypeOK == ReaderTypeOK /\ RelayTypeOK /\ RequestTypeOK /\ ObsTypeOK
=============================================================================
