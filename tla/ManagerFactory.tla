---------------------------- MODULE ManagerFactory ----------------------------
(***************************************************************************)
(* CManagerFactory: the one global m_factory from which Mt4MgrSvr and      *)
(* Mt4PumpSvr get their interfaces to the MT4 library.                     *)
(*                                                                         *)
(* Init frees the library before it loads it again, without a lock, and    *)
(* every Init of the two classes calls it, on two threads.  The library    *)
(* leaves the process with its last reference, and takes the code of every *)
(* interface made so far along; whether it pins itself is its own affair,  *)
(* so a call of such an interface works or ends the process.               *)
(***************************************************************************)
EXTENDS Naturals

VARIABLES
  lib,   \* m_lib and the two entry points are not NULL
  refs   \* references to the library that the process holds (external)

factoryVars == <<lib, refs>>

(* The constructor of the global: the library is there, or is not.         *)
FactoryInit ==
  \/ lib = TRUE /\ refs = 1
  \/ lib = FALSE /\ refs = 0

Mapped == refs > 0

(* if (m_lib) FreeLibrary(m_lib): m_lib keeps its value.  Without a        *)
(* reference the call fails, which nobody asks.                            *)
FreeLibrary ==
  /\ refs' = IF lib /\ Mapped THEN refs - 1 ELSE refs
  /\ UNCHANGED lib

(* Mutant: a handle that is there is taken to be good.                     *)
LoadLibraryOnce ==
  \/ lib /\ UNCHANGED factoryVars
  \/ ~lib /\ lib' = TRUE /\ refs' = refs + 1
  \/ ~lib /\ UNCHANGED factoryVars

(* m_lib = LoadLibraryA(path), and the entry points, or NULL.              *)
LoadLibrary ==
  \/ lib' = TRUE /\ refs' = refs + 1
  \/ lib' = FALSE /\ UNCHANGED refs
=============================================================================
