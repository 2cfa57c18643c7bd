----------------------------- MODULE MCAgents -----------------------------
EXTENDS Agents
CONSTANTS a, b
MCTasks == <<a, b>>
=============================================================================
