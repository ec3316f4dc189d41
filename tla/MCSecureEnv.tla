----------------------------- MODULE MCSecureEnv -----------------------------
EXTENDS SecureEnv
=============================================================================
