-------------------------- MODULE ServiceContainer --------------------------
(***************************************************************************)
(* The service container of one process, from the import of the            *)
(* application to the end of its lifespan.  There are two initialisations: *)
(* a synchronous one for the set-up of the application, which builds the   *)
(* core services, and the one of the lifespan, which builds them all and   *)
(* starts their background work.  Both are skipped once one has set the    *)
(* initialized flag.                                                       *)
(***************************************************************************)

\* The services with background work that the container holds itself; the lazily
\* started singletons (caches, connection pool, subscriptions) are left out.
Background == {"indexing", "cleanup"}

VARIABLES
  phase,        \* "new", "imported", "serving" or "ended"
  initialized,  \* ServiceContainer.initialized
  service       \* of each background service: "absent", "built", "running" or "stopped"

vars == <<phase, initialized, service>>

Init ==
  /\ phase = "new"
  /\ initialized = FALSE
  /\ service = [s \in Background |-> "absent"]

\* ensure_initialized: the indexing manager is built, not started.
EnsureInitialized ==
  \/ initialized /\ UNCHANGED <<initialized, service>>
  \/ /\ ~initialized
     /\ initialized' = TRUE
     /\ service' = [service EXCEPT !["indexing"] = "built"]

\* initialize: both are built and started, but for a cleanup that the settings disable.
Initialize ==
  \/ initialized /\ UNCHANGED <<initialized, service>>
  \/ /\ ~initialized
     /\ service' \in [Background -> {"built", "running"}]
     /\ service'["indexing"] = "running"
     /\ UNCHANGED initialized

\* create_app, at the import of main, asks for the container to set up the middleware.
ImportApp == phase = "new" /\ phase' = "imported" /\ EnsureInitialized

Startup == phase = "imported" /\ phase' = "serving" /\ Initialize

\* The dependencies of a request ask for the container.
Request == phase = "serving" /\ EnsureInitialized /\ UNCHANGED phase

Stopped(s) == IF service[s] \in {"built", "running"} THEN "stopped" ELSE service[s]

\* shutdown stops the services in turn; an error of the indexing manager's last save
\* leaves the cleanup service as it is.
Shutdown ==
  /\ phase = "serving"
  /\ phase' = "ended"
  /\ service' \in {[s \in Background |-> Stopped(s)],
                   [s \in Background |-> IF s = "cleanup" THEN service[s] ELSE Stopped(s)]}
  /\ UNCHANGED initialized

Next == ImportApp \/ Startup \/ Request \/ Shutdown

Spec == Init /\ [][Next]_vars

---------------------------------------------------------------------------

\* While requests are served, the jobs they create are processed in the background.
IndexingServedWhileUp == phase = "serving" => service["indexing"] = "running"

=============================================================================
