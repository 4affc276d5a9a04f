---------------------------- MODULE MCStateStore ----------------------------
(***************************************************************************)
(* StateStore with the tasks of the daemon that share an instance, and the *)
(* server with one of its own.                                             *)
(***************************************************************************)
EXTENDS StateStore, TLC

CONSTANTS queue, heartbeat, server, shared, serverStore, beatPost, serverPost

MCThreads == {queue, heartbeat, server}

MCInstanceOf == (queue :> shared) @@ (heartbeat :> shared)
                @@ (server :> serverStore)

RunOps == [kind : {"run_start", "run_end"}, run : Runs]
PostOp(p) == {o \in [kind : {"post"}, post : Posts] : o.post = p}
SessionOps == [kind : {"touch_session"}, session : Sessions] \cup {ClearSessions}
AccessOps == [kind : {"register", "approve"}, sender : Senders]

MCDuties == (queue :> RunOps \cup SessionOps)
            @@ (heartbeat :> PostOp(beatPost))
            @@ (server :> PostOp(serverPost) \cup AccessOps)
=============================================================================
