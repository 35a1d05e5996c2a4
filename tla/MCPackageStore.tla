---------------------------- MODULE MCPackageStore ----------------------------
\* Small instances of PackageStore for TLC.
EXTENDS PackageStore

\* Threads take on something after two overlapping deletes, after nothing else.
AfterTwoDeletes == {{}, {"twice"}}
===============================================================================
