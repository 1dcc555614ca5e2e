-------------------------- MODULE MCPlayerLifecycle --------------------------
(***************************************************************************)
(* PlayerLifecycle for TLC: the symmetry of its instances, and a statement *)
(* of the repository's documents that the code does not keep.              *)
(***************************************************************************)
EXTENDS PlayerLifecycle, TLC

Symmetry == Permutations(Sessions) \cup Permutations(Names)

\* "Shutdown drains registered-player lifecycle work before stopping tick
\* execution and disabling plugins" (docs/PLUGIN_API_LOG.md:39): when the tick
\* loop has stopped, every PlayerJoin has had its PlayerQuit.
ShutdownDrainsLifecycle ==
    ~LoopRunning => \A s \in Sessions : ~Visible(s)
==============================================================================
