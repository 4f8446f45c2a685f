------------------------------- MODULE MCTaskQueue -------------------------------
(* TaskQueue for TLC: two slots as in the module's task_queue singleton (one in
   MCTaskQueueCancel.cfg), and a history short enough to overflow.            *)
EXTENDS TaskQueue

==================================================================================
