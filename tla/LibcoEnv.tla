------------------------------- MODULE LibcoEnv -------------------------------
(***************************************************************************)
(* What libco keeps for each coroutine besides its stack: the switch of    *)
(* its hooks, environment variables, specific data and the resolver's      *)
(* buffer (co_hook_sys_call.cpp, co_routine.cpp, co_routine_specific.h).   *)
(*                                                                         *)
(* A thread is [co, g_co_sysenv, environ, specific, allocated]: its        *)
(* coroutines, the names the program wants private or <<>> before          *)
(* co_set_env_list, the environment of the process, the specific data of   *)
(* the thread, and how many objects were allocated so far.                 *)
(***************************************************************************)
EXTENDS Naturals, Sequences, SequencesExt

CONSTANTS Main,      \* the coroutine the thread itself is
          NoValue    \* a null pointer

Sizes == [least |-> 4096, default |-> 128 * 1024, most |-> 8 * 1024 * 1024]

\* co_create_env: a wanted stack size is bounded and rounded up to pages.
StackSize(wanted) ==
    LET bounded == IF wanted <= 0 THEN Sizes.default ELSE IF wanted > Sizes.most THEN Sizes.most ELSE wanted
    IN  ((bounded + Sizes.least - 1) \div Sizes.least) * Sizes.least

\* Nothing of a coroutine is there until it is asked for.
NewRoutine(keys) ==
    [cEnableSysHook |-> FALSE, pvEnv |-> <<>>, aSpec |-> [k \in keys |-> NoValue], iBufferSize |-> 0]

NewThread(routines, names, keys) ==
    [co |-> [r \in routines |-> NewRoutine(keys)], g_co_sysenv |-> <<>>,
     environ |-> [n \in names |-> NoValue], specific |-> [k \in keys |-> NoValue], allocated |-> 0]

co_enable_hook_sys(t, r)  == [t EXCEPT !.co[r].cEnableSysHook = TRUE]

co_disable_hook_sys(t, r) == [t EXCEPT !.co[r].cEnableSysHook = FALSE]

-----------------------------------------------------------------------------
(* Environment.  An array of names is the function from them to values, in *)
(* a sequence of one; <<>> is the array that is not there.                 *)

\* Only the first call counts, also when it names nothing; empty names are
\* skipped and repeated ones entered once.
co_set_env_list(t, names) ==
    IF t.g_co_sysenv # <<>> THEN t
    ELSE [t EXCEPT !.g_co_sysenv = <<[n \in {names[i] : i \in DOMAIN names} \ {""} |-> NoValue]>>]

Private(t, r) == t.co[r].cEnableSysHook /\ t.g_co_sysenv # <<>>

\* Faulty variant: the coroutines share one array.
dup_co_sysenv_arrOnce(t, r) ==
    LET first == {q \in DOMAIN t.co : t.co[q].pvEnv # <<>>}
    IN  IF t.co[r].pvEnv # <<>> THEN t
        ELSE [t EXCEPT !.co[r].pvEnv = IF first = {} THEN t.g_co_sysenv ELSE t.co[CHOOSE q \in first : TRUE].pvEnv]

\* The coroutine's own copy, made when it first uses its environment.
dup_co_sysenv_arr(t, r) ==
    IF t.co[r].pvEnv # <<>> THEN t ELSE [t EXCEPT !.co[r].pvEnv = t.g_co_sysenv]

\* The thread after the copy, and whether the name is one of its entries.
Copied(t, r) == IF Private(t, r) THEN dup_co_sysenv_arr(t, r) ELSE t

Listed(t, r, n) == Private(t, r) /\ n \in DOMAIN Copied(t, r).co[r].pvEnv[1]

setenv(t, r, n, value, overwrite) ==
    IF Listed(t, r, n)
    THEN [Copied(t, r) EXCEPT !.co[r].pvEnv[1][n] = IF overwrite \/ @ = NoValue THEN value ELSE @]
    ELSE [Copied(t, r) EXCEPT !.environ[n] = IF overwrite \/ @ = NoValue THEN value ELSE @]

unsetenv(t, r, n) ==
    IF Listed(t, r, n) THEN [Copied(t, r) EXCEPT !.co[r].pvEnv[1][n] = NoValue]
    ELSE [Copied(t, r) EXCEPT !.environ[n] = NoValue]

getenv(t, r, n) ==
    [t |-> Copied(t, r), ret |-> IF Listed(t, r, n) THEN Copied(t, r).co[r].pvEnv[1][n] ELSE t.environ[n]]

-----------------------------------------------------------------------------
(* Specific data *)

\* The thread itself uses pthread's.
co_getspecific(t, r, key) == IF r = Main THEN t.specific[key] ELSE t.co[r].aSpec[key]

co_setspecific(t, r, key, value) ==
    IF r = Main THEN [t EXCEPT !.specific[key] = value] ELSE [t EXCEPT !.co[r].aSpec[key] = value]

\* CO_ROUTINE_SPECIFIC's operator->: an object of the coroutine's own, made
\* when it is first used.
RoutineData(t, r, key) ==
    IF co_getspecific(t, r, key) # NoValue THEN [t |-> t, ret |-> co_getspecific(t, r, key)]
    ELSE LET p == t.allocated + 1
         IN  [t |-> [co_setspecific(t, r, key, p) EXCEPT !.allocated = p], ret |-> p]

\* co_gethostbyname: a buffer that had to grow is not kept for the next call;
\* while the answer does not fit it is doubled.
RECURSIVE Doubled(_, _)
Doubled(size, needed) == IF size >= needed THEN size ELSE Doubled(2 * size, needed)

co_gethostbyname(t, r, needed, initial) ==
    LET size == t.co[r].iBufferSize
    IN  [t EXCEPT !.co[r].iBufferSize = Doubled(IF size = 0 \/ size > initial THEN initial ELSE size, needed)]
==============================================================================
