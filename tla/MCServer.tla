------------------------------ MODULE MCServer ------------------------------
EXTENDS Server, TLC

CONSTANTS d1, t1   \* a database and a table

Use(d)       == [op |-> "use", arg |-> d]
CreateDb(d)  == [op |-> "create database", arg |-> d]
CreateTbl(t) == [op |-> "create table", arg |-> t]
Other        == [op |-> "other", arg |-> NoDb]

AllLines      == {Use(d1), CreateDb(d1), CreateTbl(t1), Other, Exit}
PipelineLines == {Use(d1), Other, Exit, Empty}
NoneLines     == {Use(None), CreateTbl(t1)}
=============================================================================
