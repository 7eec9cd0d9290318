-------------------------- MODULE MCParameterStore --------------------------
(* A Copley parameter set, and after it in startup order an F-KR set whose   *)
(* snapshot may need migration and is then refused.                          *)
EXTENDS ParameterStore

MCSchema == <<1, 2>>
=============================================================================
