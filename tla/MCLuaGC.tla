------------------------------ MODULE MCLuaGC ------------------------------
(* LuaGC on small instances: what the programs use *)
EXTENDS LuaGC, TLC

\* At most so many strings, tables, userdata, functions, upvalues, coroutines
Uses(s, t, u, f, p, c, modes, ops) ==
  [most |-> [k \in AllKinds |->
               CASE k = "string" -> s [] k = "table" -> t [] k = "udata" -> u
                 [] k = "func" -> f [] k = "upval" -> p [] k = "thread" -> c + 1],
   modes |-> modes, ops |-> ops]

Coroutine == Uses(0, 0, 0, 1, 1, 1, {"strong"}, {})
Closures == Uses(0, 1, 0, 1, 1, 0, {"strong"}, {"setfenv"})
WeakTableOfString == Uses(1, 1, 0, 0, 0, 0, {"strong", "weakkey", "weakvalue"}, Rare)
WeakKeyUserdata == Uses(0, 1, 1, 0, 0, 0, {"strong", "weakkey"}, {"setmetatable"})
WeakValueUserdata == Uses(0, 1, 1, 0, 0, 0, {"strong", "weakvalue"}, {"collect"})
Everything == Uses(1, 1, 1, 1, 1, 1, {"strong"}, {"collect"})

FivePrograms ==
  {Coroutine, Closures, WeakTableOfString, WeakKeyUserdata, WeakValueUserdata}
OneProgram == {Everything}
===========================================================================
